--------------------------- MODULE MCKoiHandshake ---------------------------
(***************************************************************************)
(* Instances of KoiHandshake for TLC.                                      *)
(***************************************************************************)
EXTENDS KoiHandshake, TLC

CONSTANTS a, b, c, \* endpoints
          h1, h2   \* hosts

\* a and b on hosts of their own, both may connect.
PairHosts == a :> h1 @@ b :> h2
PairWants == {<<a, b>>, <<b, a>>}

\* Only a connects; b is passive.
OneWant == {<<a, b>>}

\* b and c both connect to a; they run on one host.
SharedHosts == a :> h1 @@ b :> h2 @@ c :> h2
FanWants == {<<b, a>>, <<c, a>>}

\* No slot is locked by another thread while the table is scanned.
NoneBusy == {{}}

\* The first slot may be locked while the table is scanned.
FirstBusy == {{}, {1}}

Symmetry == Permutations(ClientPort) \cup Permutations(ConnId)
=============================================================================
