---------------------------- MODULE MCEnrollment -----------------------------
\* A profile with a cookie store, saved passwords and website storage, a key
\* whose directory is watched, and one whose directory is not.
EXTENDS Enrollment, TLC
CONSTANTS profile, ssh, usb, storage, site, cookies, logins, data, id1, id2

MCParent ==
  [n \in {storage, cookies, logins} |-> profile] @@ [n \in {site} |-> storage]
  @@ [n \in {data} |-> site] @@ [n \in {id1} |-> ssh] @@ [n \in {id2} |-> usb]
MCLayout ==
  profile :> 1 @@ ssh :> 2 @@ usb :> 3 @@ cookies :> 4 @@ storage :> 5 @@ id1 :> 6
  @@ id2 :> 7 @@ logins :> 0 @@ site :> 0 @@ data :> 0
=============================================================================
