--------------------------- MODULE MCApiHandlers ---------------------------
(***************************************************************************)
(* The request handlers for TLC.                                           *)
(***************************************************************************)
EXTENDS ApiHandlers, TLC

CONSTANTS a1, a2, e, p, n, m, c1, u1, u2, r1, r2, r3, t1, t2, day

Alike == Permutations({r1, r2, r3})

OneAdmin == a1 :> "admin"
TwoAdmins == (a1 :> "admin") @@ (a2 :> "admin")
OneEditor == a2 :> "editor"
AdminAndEditor == OneAdmin @@ OneEditor
AnyFounders == {OneAdmin, TwoAdmins, AdminAndEditor}
AnyChanges == {OneAdmin, a2 :> "admin", AdminAndEditor, a1 :> "viewer"}

HostedRows == [scope : {"global", "project"}, name : {m}, provider : {"openai"},
               residency : {"external"}, config : {1}, key : {1}]
OwnRows == [scope : {"global", "project"}, name : {n}, provider : {"openai", "ollama"},
            residency : {"local"}, config : {1}, key : {None}]
AnyBodies == HostedRows \cup OwnRows
Renames == [name : {n}, residency : {None}, config : {None}, key : {None}, status : {None}]
Moves == [name : {None}, residency : {None, "local"}, config : {2}, key : {None, 2}, status : {None}]
Revivals == [name : {None}, residency : {None}, config : {None}, key : {None}, status : {"active"}]
AnyUpdates == Renames \cup Moves \cup Revivals
=============================================================================
