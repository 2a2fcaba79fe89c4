------------------------------ MODULE MCMacIndex ------------------------------
\* A profile with its cookies and a temporary file beside them, a key, and a
\* name elsewhere on the volume.
EXTENDS MacIndex, TLC
CONSTANTS cookies, temp, key, outside, profile, browser, other

MCContents == profile :> {cookies, temp}
MCElsewhere == cookies :> outside @@ temp :> None
MCProfileOf == cookies :> "p1" @@ temp :> "p1" @@ key :> None @@ outside :> None @@ profile :> "p1"
MCTrustedFor == browser :> {"p1"} @@ other :> {}
MCLayout == cookies :> 1 @@ key :> 2 @@ temp :> 0 @@ outside :> 0
=============================================================================
