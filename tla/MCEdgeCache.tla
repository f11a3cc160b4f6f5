---------------------------- MODULE MCEdgeCache -----------------------------
\* Two page views against three writers of one blog.
EXTENDS EdgeCache, TLC

Alike == Permutations(View) \cup Permutations(Job)
=============================================================================
