----------------------------- MODULE MCAdmission -----------------------------
(* Instances of Admission: a browser (share 1) and an install (share 2). *)
EXTENDS Admission, TLC

CONSTANTS browser, install, b1, i1, i2, i3

\* One owner of each kind; the install's sessions may be ended by the admin.
TwoOwners == {browser, install}
TwoSids == {b1, i1, i2, i3}
TwoOwnerOf == [s \in TwoSids |-> IF s = b1 THEN browser ELSE install]
TwoShares == [o \in TwoOwners |-> IF o = browser THEN 1 ELSE 2]
InstallOwner == {install}

Symmetry == Permutations({i1, i2, i3})
==============================================================================
