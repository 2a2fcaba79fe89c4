-------------------------- MODULE MCAdministration ----------------------------
\* The paths of two configurations, a key, and a fixture; two candidate configurations of
\* guardd, one of which validates and cannot be used.
EXTENDS Administration
CONSTANTS r1, r2, k, f, a1, a2, a, b, c1, c2, br

MCInstalled == {NoConfig, {r1}}
MCOffered == {{r2}}
=============================================================================
