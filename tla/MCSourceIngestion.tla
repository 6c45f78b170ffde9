-------------------------- MODULE MCSourceIngestion --------------------------
\* Handlers, keys, URLs, wordings and the versions of a page are interchangeable.
EXTENDS SourceIngestion, TLC

Symmetric ==
  Permutations(Handlers) \cup Permutations(Keys) \cup Permutations(Urls)
    \cup Permutations(Wordings) \cup Permutations(Versions)
=============================================================================
