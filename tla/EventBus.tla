------------------------------ MODULE EventBus ------------------------------
(***************************************************************************)
(* The event bus of ADR-0003: publishers insert rows under one advisory    *)
(* lock, NOTIFY wakes the streams of an api process over its one LISTEN    *)
(* connection, every stream reads the table from a cursor of its own, the  *)
(* worker prunes old rows, and an EventSource in the browser reconnects    *)
(* with the last id it received.                                           *)
(*                                                                         *)
(* A row is its sequence number; its audience is a kind: "public",         *)
(* "project" (members of one project) or the user it is addressed to.  The *)
(* topic filter of a stream hides rows the way the audience does and is    *)
(* not a dimension of its own.  Streams run in one api process.            *)
(***************************************************************************)
EXTENDS Integers, Sequences, FiniteSetsExt

CONSTANTS
  Clients,    \* browsers with an open application, one user each
  Admins,     \* the site admins among them
  Kinds,      \* audiences of the rows published
  None,       \* no id, no load
  Limit,      \* rows per read (500 in the code)
  Ttl,        \* life of a cached membership, in ticks (10 s)
  MaxSeq, MaxUpsets,  \* bounds: rows, upsets (connections broken, members changed)
  MayEmpty,   \* retention may remove the last row of the table
  MayRefuse   \* a reconnect may be answered by something else than a stream

ASSUME BoundsAssumption == MaxSeq \in Nat /\ MaxUpsets \in Nat /\ Ttl \in Nat /\ Limit \in Nat \ {0}
ASSUME AudienceAssumption == "public" \notin Clients /\ "project" \notin Clients
ASSUME NoneAssumption == None \notin 0..MaxSeq /\ None \notin 0..(Ttl + 1)

Seqs == 1..MaxSeq

VARIABLES
  row, kind,            \* events table: fate and audience by sequence number
  listen, inbox,        \* LISTEN connection, wake-ups on it
  at, cursor, batch, full, flag,  \* streams: position, cursor, rows read, waiter
  member, age, known,   \* members; cached membership and its age in ticks
  wire, last,           \* messages on their way; Last-Event-ID of the browser
  upsets,               \* upsets so far
  shown, from, heard, gone  \* history: see below

(***************************************************************************)
(* History: shown, the rows whose change a browser has fetched; from, the  *)
(* rows that were committed when its stream first took the head; heard,    *)
(* the rows of the table announced while this process listens; gone, the   *)
(* ticks since a client left the project.                                  *)
(***************************************************************************)
table == <<row, kind>>
broker == <<listen, inbox>>
stream == <<at, cursor, batch, full>>
access == <<member, age, known, gone>>
browser == <<wire, last, shown>>
vars == <<table, broker, stream, flag, access, browser, upsets, from, heard>>

Kept == {s \in Seqs : row[s] = "kept"}
Published == {s \in Seqs : row[s] \in {"kept", "pruned"}}
HighestOf(S) == Max(S \cup {0})
CurrentHead == HighestOf(Kept)
Live == {c \in Clients : at[c] \notin {"off", "closed"}}
Reading == {c \in Clients : at[c] \in {"read", "send", "wait"}}

Init ==
  /\ row = [s \in Seqs |-> "none"] /\ kind = [s \in Seqs |-> None]
  /\ listen = "down" /\ inbox = 0
  /\ at = [c \in Clients |-> "off"] /\ cursor = [c \in Clients |-> 0]
  /\ batch = [c \in Clients |-> {}] /\ full = [c \in Clients |-> FALSE]
  /\ flag = [c \in Clients |-> FALSE]
  /\ member \in SUBSET Clients /\ age = [c \in Clients |-> None]
  /\ known = [c \in Clients |-> FALSE] /\ gone = [c \in Clients |-> None]
  /\ wire = [c \in Clients |-> <<>>] /\ last = [c \in Clients |-> None]
  /\ upsets = 0
  /\ shown = [c \in Clients |-> {}] /\ from = [c \in Clients |-> None]
  /\ heard = {}

Upset == upsets < MaxUpsets /\ upsets' = upsets + 1

-----------------------------------------------------------------------------
(***************************************************************************)
(* Publishing: the advisory lock is held until the caller's transaction    *)
(* ends, NOTIFY goes out with the commit, a rollback leaves a gap in seq.  *)
(***************************************************************************)
NoLock == TRUE
LockFree == \A s \in Seqs : row[s] # "open"
Publish(k) ==
  /\ LockFree
  /\ \E s \in Seqs :
       /\ row[s] = "none" /\ \A r \in 1..(s - 1) : row[r] # "none"
       /\ row' = [row EXCEPT ![s] = "open"]
       /\ kind' = [kind EXCEPT ![s] = k]
  /\ UNCHANGED <<broker, stream, flag, access, browser, upsets, from, heard>>

Commit(s) ==
  /\ row[s] = "open"
  /\ row' = [row EXCEPT ![s] = "kept"]
  /\ IF listen = "up" THEN inbox' = inbox + 1 /\ heard' = heard \cup {s}
                      ELSE UNCHANGED <<inbox, heard>>
  /\ UNCHANGED <<kind, listen, stream, flag, access, browser, upsets, from>>

Rollback(s) ==
  /\ row[s] = "open"
  /\ row' = [row EXCEPT ![s] = "undone"] /\ kind' = [kind EXCEPT ![s] = None]
  /\ UNCHANGED <<broker, stream, flag, access, browser, upsets, from, heard>>

\* Every ten minutes the rows older than seven days go: a prefix.  By then
\* every stream that is reading has passed them.
Prune(cut) ==
  /\ cut \in Kept /\ (MayEmpty \/ cut < CurrentHead)
  /\ \A c \in Reading : cut <= cursor[c]
  /\ row' = [s \in Seqs |-> IF s \in Kept /\ s <= cut THEN "pruned" ELSE row[s]]
  /\ heard' = heard \ 1..cut
  /\ UNCHANGED <<kind, broker, stream, flag, access, browser, upsets, from>>

-----------------------------------------------------------------------------
(***************************************************************************)
(* EventBroker: once the connection listens, the task waits for the close  *)
(* of the process and does not notice that the connection died ("lost").   *)
(***************************************************************************)
WakeWaiting == flag' = [c \in Clients |-> flag[c] \/ at[c] = "wait"]
WakeAll == flag' = [c \in Clients |-> flag[c] \/ c \in Live]

ConnectListener ==
  /\ listen = "down" /\ listen' = "up"
  /\ UNCHANGED <<table, inbox, stream, flag, access, browser, upsets, from, heard>>

\* connect() raises: wake everybody, back off, try again.
ListenerFails ==
  /\ listen = "down" /\ WakeAll
  /\ UNCHANGED <<table, broker, stream, access, browser, upsets, from, heard>>

ListenerDies ==
  /\ Upset /\ listen = "up"
  /\ listen' = "lost" /\ inbox' = 0 /\ heard' = {}
  /\ UNCHANGED <<table, stream, flag, access, browser, from>>

OnNotify ==
  /\ listen = "up" /\ inbox > 0
  /\ inbox' = inbox - 1 /\ WakeAll
  /\ UNCHANGED <<table, listen, stream, access, browser, upsets, from, heard>>

-----------------------------------------------------------------------------
(***************************************************************************)
(* events_stream, one generator per connection.                            *)
(***************************************************************************)
\* EventSource connects or reconnects; the generator subscribes its waiter.  The
\* waiter, the cursor and the membership cache are new with every connection.
Connect(c) ==
  /\ at[c] = "off"
  /\ at' = [at EXCEPT ![c] = "open"]
  /\ UNCHANGED <<table, broker, cursor, batch, full, flag, access, browser, upsets,
                 from, heard>>

\* Any other answer than a stream: EventSource closes for good.
Refuse(c) ==
  /\ MayRefuse /\ at[c] = "off"
  /\ at' = [at EXCEPT ![c] = "closed"]
  /\ UNCHANGED <<table, broker, cursor, batch, full, flag, access, browser, upsets,
                 from, heard>>

NeverOutdated(id) == FALSE
Outdated(id) == Kept # {} /\ id + 1 < Min(Kept)

\* No Last-Event-ID: start at the head.
StartCold(c) ==
  /\ at[c] = "open" /\ last[c] = None
  /\ cursor' = [cursor EXCEPT ![c] = CurrentHead]
  /\ from' = [from EXCEPT ![c] = HighestOf(Published)]
  /\ at' = [at EXCEPT ![c] = "read"]
  /\ UNCHANGED <<table, broker, batch, full, flag, access, browser, upsets, heard>>

\* With one: replay from it, or reset when retention has passed it.
StartFrom(c) ==
  /\ at[c] = "open" /\ last[c] # None
  /\ cursor' = [cursor EXCEPT ![c] = last[c]]
  /\ at' = [at EXCEPT ![c] = IF Outdated(last[c]) THEN "reset" ELSE "read"]
  /\ UNCHANGED <<table, broker, batch, full, flag, access, browser, upsets, from, heard>>

\* The head is a second query, after the one for the oldest row.
SendReset(c) ==
  /\ at[c] = "reset"
  /\ cursor' = [cursor EXCEPT ![c] = CurrentHead]
  /\ wire' = [wire EXCEPT ![c] = Append(@, [id |-> CurrentHead, is |-> "reset"])]
  /\ at' = [at EXCEPT ![c] = "read"]
  /\ UNCHANGED <<table, broker, batch, full, flag, access, last, shown, upsets, from, heard>>

FromCursor(c) == {s \in Kept : s >= cursor[c]}
After(c) == {s \in Kept : s > cursor[c]}
FetchAfter(c) == {s \in After(c) : Cardinality({r \in After(c) : r < s}) < Limit}
Rest(isFull) == IF isFull THEN "read" ELSE "wait"

Fetch(c) ==
  /\ at[c] = "read"
  /\ batch' = [batch EXCEPT ![c] = FetchAfter(c)]
  /\ full' = [full EXCEPT ![c] = Cardinality(FetchAfter(c)) = Limit]
  /\ at' = [at EXCEPT ![c] = IF FetchAfter(c) = {} THEN "wait" ELSE "send"]
  /\ UNCHANGED <<table, broker, cursor, flag, access, browser, upsets, from, heard>>

\* _Visibility: the membership is read again when the cached one is older than Ttl.
LoadedOnce(c) == age[c] = None
Stale(c) == age[c] = None \/ age[c] > Ttl
Asks(c, s) == kind[s] = "project" /\ c \notin Admins
Belongs(c) == IF Stale(c) THEN c \in member ELSE known[c]
Visible(c, s) ==
  \/ kind[s] \in {"public", c}
  \/ kind[s] = "project" /\ (c \in Admins \/ Belongs(c))

\* One row of the batch: the cursor passes it whether it is visible or not.
Send(c) ==
  LET s == Min(batch[c]) IN
  /\ at[c] = "send"
  /\ cursor' = [cursor EXCEPT ![c] = s]
  /\ batch' = [batch EXCEPT ![c] = @ \ {s}]
  /\ at' = [at EXCEPT ![c] = IF batch[c] = {s} THEN Rest(full[c]) ELSE "send"]
  /\ wire' = IF Visible(c, s) THEN [wire EXCEPT ![c] = Append(@, [id |-> s, is |-> "event"])]
                              ELSE wire
  /\ IF Asks(c, s) /\ Stale(c)
     THEN /\ known' = [known EXCEPT ![c] = c \in member]
          /\ age' = [age EXCEPT ![c] = 0]
     ELSE UNCHANGED <<known, age>>
  /\ full' = [full EXCEPT ![c] = @ /\ batch[c] # {s}]
  /\ UNCHANGED <<table, broker, flag, member, gone, last, shown, upsets, from, heard>>

\* The waiter is cleared before the next read, whatever ended the wait.
Resume(c) ==
  /\ at' = [at EXCEPT ![c] = "read"]
  /\ flag' = [flag EXCEPT ![c] = FALSE]
  /\ UNCHANGED <<table, broker, cursor, batch, full, access, browser, upsets, from, heard>>
Woken(c) == at[c] = "wait" /\ flag[c] /\ Resume(c)
NoTimeout(c) == FALSE
TimedOut(c) == at[c] = "wait" /\ Resume(c)

-----------------------------------------------------------------------------
(***************************************************************************)
(* The browser: an event refetches the queries of its topic, a reset       *)
(* refetches all of them.                                                  *)
(***************************************************************************)
Refetched(c, m) == IF m.is = "reset" THEN Published ELSE shown[c] \cup {m.id}
Receive(c) ==
  /\ wire[c] # <<>>
  /\ wire' = [wire EXCEPT ![c] = Tail(@)]
  /\ last' = [last EXCEPT ![c] = Head(wire[c]).id]
  /\ shown' = [shown EXCEPT ![c] = Refetched(c, Head(wire[c]))]
  /\ UNCHANGED <<table, broker, stream, flag, access, upsets, from, heard>>

\* The generators of C end with their locals, and what they sent is lost.
Reset(f, C, v) == [c \in Clients |-> IF c \in C THEN v ELSE f[c]]
Lose(C) ==
  /\ Upset
  /\ at' = Reset(at, C, "off") /\ cursor' = Reset(cursor, C, 0)
  /\ batch' = Reset(batch, C, {}) /\ full' = Reset(full, C, FALSE)
  /\ flag' = Reset(flag, C, FALSE) /\ wire' = Reset(wire, C, <<>>)
  /\ age' = Reset(age, C, None) /\ known' = Reset(known, C, FALSE)
  /\ UNCHANGED <<table, member, gone, last, shown, from>>

Drop(c) == c \in Live /\ Lose({c}) /\ UNCHANGED <<broker, heard>>
Restart == Lose(Live) /\ listen' = "down" /\ inbox' = 0 /\ heard' = {}

\* Members of the project come and go while streams are open.
Join(c) ==
  /\ Upset /\ c \notin member /\ member' = member \cup {c}
  /\ gone' = [gone EXCEPT ![c] = None]
  /\ UNCHANGED <<table, broker, stream, flag, age, known, browser, from, heard>>
Leave(c) ==
  /\ Upset /\ c \in member /\ member' = member \ {c}
  /\ gone' = [gone EXCEPT ![c] = 0]
  /\ UNCHANGED <<table, broker, stream, flag, age, known, browser, from, heard>>

\* Ages count up to the first tick past Ttl: older is the same.
Older(a) == IF a = None \/ a > Ttl THEN a ELSE a + 1
Tick ==
  /\ age' = [c \in Clients |-> Older(age[c])] /\ gone' = [c \in Clients |-> Older(gone[c])]
  /\ UNCHANGED <<table, broker, stream, flag, member, known, browser, upsets, from, heard>>

Next ==
  \/ \E k \in Kinds : Publish(k)
  \/ \E s \in Seqs : Commit(s) \/ Rollback(s) \/ Prune(s)
  \/ ConnectListener \/ ListenerFails \/ ListenerDies \/ OnNotify \/ Restart \/ Tick
  \/ \E c \in Clients :
       \/ Connect(c) \/ Refuse(c) \/ StartCold(c) \/ StartFrom(c) \/ SendReset(c)
       \/ Fetch(c) \/ Send(c) \/ Woken(c) \/ TimedOut(c) \/ Receive(c) \/ Drop(c)
       \/ Join(c) \/ Leave(c)

\* The EventSource, the generator with its timer and the socket go on by
\* themselves; nothing is asked of publishers, of the listener or of the pruning.
Streams(c) == \/ Connect(c) \/ StartCold(c) \/ StartFrom(c) \/ SendReset(c)
              \/ Fetch(c) \/ Send(c) \/ TimedOut(c)
Fairness == \A c \in Clients : WF_vars(Streams(c)) /\ WF_vars(Receive(c))

Spec == Init /\ [][Next]_vars
FairSpec == Spec /\ Fairness

-----------------------------------------------------------------------------
\* TYPE.  Every variable keeps its type, and the bound on upsets holds.
Ids == 0..MaxSeq
Messages == [id : Ids, is : {"event", "reset"}]
TypeOK ==
  /\ row \in [Seqs -> {"none", "open", "kept", "pruned", "undone"}]
  /\ kind \in [Seqs -> Kinds \cup {None}]
  /\ listen \in {"down", "up", "lost"} /\ inbox \in Nat
  /\ at \in [Clients -> {"off", "closed", "open", "reset", "read", "send", "wait"}]
  /\ cursor \in [Clients -> Ids] /\ batch \in [Clients -> SUBSET Seqs]
  /\ full \in [Clients -> BOOLEAN] /\ flag \in [Clients -> BOOLEAN]
  /\ member \subseteq Clients /\ known \in [Clients -> BOOLEAN]
  /\ age \in [Clients -> 0..(Ttl + 1) \cup {None}]
  /\ gone \in [Clients -> 0..(Ttl + 1) \cup {None}]
  /\ wire \in [Clients -> Seq(Messages)] /\ last \in [Clients -> Ids \cup {None}]
  /\ upsets \in 0..MaxUpsets
  /\ shown \in [Clients -> SUBSET Seqs] /\ from \in [Clients -> Ids \cup {None}]
  /\ heard \subseteq Seqs

\* The rows whose audience certainly holds client c; membership is cached, so
\* a project's rows are certain for admins only.
CertainFor(c, s) ==
  \/ kind[s] \in {"public", c}
  \/ kind[s] = "project" /\ c \in Admins
Due(c, s) == from[c] # None /\ s \in Published /\ s > from[c] /\ CertainFor(c, s)
OnWire(c, s) == \E i \in DOMAIN wire[c] : wire[c][i].is = "reset" \/ wire[c][i].id = s

\* What is on its way to a browser is ordered, ahead of the last id the browser
\* has and not ahead of the cursor: no row arrives twice.
InOrder ==
  \A c \in Clients : \A i \in DOMAIN wire[c] :
    /\ last[c] # None => wire[c][i].id > last[c]
    /\ wire[c][i].id <= cursor[c]
    /\ \A j \in 1..(i - 1) : wire[c][j].id < wire[c][i].id

\* NOTHING SKIPPED, NOTHING TWICE.  Whatever a cursor has passed since the stream
\* began is in the browser or on its way, once and in order, and whatever the
\* Last-Event-ID has passed is in the browser: no commit slips in behind a cursor,
\* over batches, breaks, replays and resets.
NothingSkipped ==
  /\ InOrder
  /\ \A c \in Clients, s \in Seqs : Due(c, s) =>
       /\ (last[c] # None /\ s <= last[c]) => s \in shown[c]
       /\ (c \in Reading /\ s <= cursor[c]) => s \in shown[c] \/ OnWire(c, s)

\* AWAKE.  A stream never sleeps over a row that was announced while its process
\* listens: the row is read, the waiter is set or the wake-up is still to come.
NoSleepThrough ==
  \A c \in Clients, s \in Kept :
    (at[c] = "wait" /\ s > cursor[c] /\ s \in heard /\ listen = "up") => flag[c] \/ inbox > 0

\* REVOKED.  No row of a project is sent to a user who left it more than Ttl ago.
RevokedInTime ==
  [][\A c \in Clients \ Admins :
       Len(wire'[c]) > Len(wire[c]) =>
         LET m == wire'[c][Len(wire'[c])] IN
         (m.is = "event" /\ kind[m.id] = "project") =>
           (c \in member \/ (gone[c] # None /\ gone[c] <= Ttl))]_vars

\* ARRIVES.  Once the publishers fall silent (after MaxSeq rows at the latest)
\* every row that is due has reached its browser, also when the LISTEN
\* connection is dead, unless the browser has given up.
CaughtUp(c) == at[c] = "closed" \/ \A s \in Seqs : Due(c, s) => s \in shown[c]
EveryRowArrives == \A c \in Clients : []<>CaughtUp(c)
=============================================================================
