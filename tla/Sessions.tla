------------------------------ MODULE Sessions ------------------------------
(***************************************************************************)
(* Sign-in with the identity provider, the users it creates and the        *)
(* sessions behind the cookies (routers/auth.py, auth/service.py).  The    *)
(* state of a sign-in is a cookie of the browser, read when the callback   *)
(* arrives and taken away when it is answered, so callbacks overlap with   *)
(* each other and with sign-ins that begin in another tab.                 *)
(***************************************************************************)
EXTENDS Integers

CONSTANTS
  Requests,     (* callbacks in progress, each of them used once             *)
  SignIns,      (* a state with its nonce and verifier, as /login makes them *)
  Browsers,
  Subs,         (* people at the identity provider                           *)
  Emails,
  None

VARIABLES
  signin,       (* [sign-in |-> where it is, its browser and who signed in]  *)
  pending,      (* [browser |-> the sign-in in its cookie osaip_oidc]        *)
  cookie,       (* [browser |-> the token in its cookie osaip_session]       *)
  callback,     (* [request |-> where its handler is and what it has read]   *)
  account,      (* [id |-> row of users]                                     *)
  session       (* [token |-> row of sessions]                               *)

browserVars == <<signin, pending, cookie>>
tables == <<account, session>>
vars == <<browserVars, callback, tables>>

New == [at |-> "new"]
Idle == [at |-> "idle"]

Init ==
  /\ signin = [s \in SignIns |-> New]
  /\ pending = [b \in Browsers |-> None] /\ cookie = [b \in Browsers |-> None]
  /\ callback = [r \in Requests |-> Idle]
  /\ account = <<>> /\ session = <<>>

\* /login puts the state into the cookie, over the one that is there.
Login(s, b) ==
  /\ signin[s] = New
  /\ signin' = [signin EXCEPT ![s] = [at |-> "sent", browser |-> b]]
  /\ pending' = [pending EXCEPT ![b] = s]
  /\ UNCHANGED <<cookie, callback, tables>>

\* The identity provider: someone signs in and the browser is sent back with a code
\* that can be exchanged once.
Authenticate(s) ==
  /\ signin[s].at = "sent"
  /\ \E u \in Subs, e \in Emails :
       signin' = [signin EXCEPT ![s] =
         [at |-> "back", browser |-> @.browser, sub |-> u, email |-> e, code |-> "fresh"]]
  /\ UNCHANGED <<pending, cookie, callback, tables>>

-----------------------------------------------------------------------------
SignInOf(r) == signin[callback[r].signin]
BrowserOf(r) == SignInOf(r).browser
Matches(b, s) == pending[b] = s

\* An answer with a session that has been emptied deletes the cookie, whatever is in
\* it by then.
Answered(r, at) ==
  /\ callback' = [callback EXCEPT ![r].at = at]
  /\ pending' = [pending EXCEPT ![BrowserOf(r)] = None]

\* callback reads the cookie of the request; a mismatch is answered with 400.
Receive(r, s) ==
  /\ callback[r] = Idle /\ signin[s].at = "back"
  /\ LET b == signin[s].browser
         ok == Matches(b, s)
     IN /\ callback' = [callback EXCEPT ![r] =
             [at |-> IF ok THEN "matched" ELSE "refused", signin |-> s, found |-> None]]
        /\ pending' = IF ok THEN pending ELSE [pending EXCEPT ![b] = None]
  /\ UNCHANGED <<signin, cookie, tables>>

\* exchange_code and validate_id_token: 502 when the provider does not take the code.
Exchange(r) ==
  /\ callback[r].at = "matched"
  /\ \/ /\ SignInOf(r).code = "fresh"
        /\ signin' = [signin EXCEPT ![callback[r].signin].code = "used"]
        /\ callback' = [callback EXCEPT ![r].at = "known"]
        /\ UNCHANGED pending
     \/ Answered(r, "refused") /\ UNCHANGED signin
  /\ UNCHANGED <<cookie, tables>>

Rows(u) == {i \in DOMAIN account : account[i].sub = u}
Lookup(r) ==
  /\ callback[r].at = "known"
  /\ LET rows == Rows(SignInOf(r).sub)
         i == CHOOSE j \in rows : TRUE
     IN callback' = [callback EXCEPT ![r] =
          [@ EXCEPT !.at = "read",
                    !.found = IF rows = {} THEN None ELSE [id |-> i, email |-> account[i].email]]]
  /\ UNCHANGED <<browserVars, tables>>

\* The unique columns of users, as the row with this id meets them.
NothingUnique(id, row) == FALSE
Clashes(id, row) ==
  \E i \in DOMAIN account \ {id} : account[i].sub = row.sub \/ account[i].email = row.email

\* provision_user and create_session in one transaction; an address is written when it
\* is not the one that was read.  What breaks a unique column ends in 500, and such an
\* answer leaves the cookies alone.
Provision(r) ==
  LET s == SignInOf(r)
      found == callback[r].found
      id == IF found = None THEN r ELSE found.id
      row == [sub |-> s.sub,
              email |-> IF found # None /\ found.email = s.email THEN account[id].email ELSE s.email]
  IN
  /\ callback[r].at = "read"
  /\ IF Clashes(id, row)
     THEN /\ callback' = [callback EXCEPT ![r].at = "failed"]
          /\ UNCHANGED tables
     ELSE /\ account' = [i \in DOMAIN account \cup {id} |-> IF i = id THEN row ELSE account[i]]
          /\ session' = [t \in DOMAIN session \cup {r} |->
               IF t = r THEN [user |-> id, ends |-> "later"] ELSE session[t]]
          /\ callback' = [callback EXCEPT ![r].at = "committed"]
  /\ UNCHANGED browserVars

Redirect(r) ==
  /\ callback[r].at = "committed"
  /\ Answered(r, "done")
  /\ cookie' = [cookie EXCEPT ![BrowserOf(r)] = r]
  /\ UNCHANGED <<signin, tables>>

-----------------------------------------------------------------------------
Without(t) == [u \in DOMAIN session \ {t} |-> session[u]]

Expire(t) ==
  /\ session[t].ends = "later"
  /\ session' = [session EXCEPT ![t].ends = "past"]
  /\ UNCHANGED <<browserVars, callback, account>>

\* resolve_session: the user of a cookie, None without a session or when it is over.
Resolve(b) ==
  IF cookie[b] \in DOMAIN session /\ session[cookie[b]].ends = "later"
  THEN session[cookie[b]].user ELSE None

\* Any request of the browser: a session that is over is deleted.
Me(b) ==
  /\ cookie[b] \in DOMAIN session /\ Resolve(b) = None
  /\ session' = Without(cookie[b])
  /\ UNCHANGED <<browserVars, callback, account>>

Logout(b) ==
  /\ Resolve(b) # None
  /\ session' = Without(cookie[b])
  /\ UNCHANGED <<browserVars, callback, account>>

Next ==
  \/ \E s \in SignIns : Authenticate(s) \/ \E b \in Browsers : Login(s, b)
  \/ \E r \in Requests :
       \/ \E s \in SignIns : Receive(r, s)
       \/ Exchange(r) \/ Lookup(r) \/ Provision(r) \/ Redirect(r)
  \/ \E t \in DOMAIN session : Expire(t)
  \/ \E b \in Browsers : Me(b) \/ Logout(b)

-----------------------------------------------------------------------------
\* However sign-ins overlap in the tabs of a browser and their callbacks are sent
\* twice, a person and an address have one row of users, a sign-in opens at most one
\* session, and who is signed in somewhere is who the identity provider said when the
\* sign-in of that session came back to that browser.
SignedInAsOneself ==
  /\ \A i, j \in DOMAIN account : i # j =>
       account[i].sub # account[j].sub /\ account[i].email # account[j].email
  /\ \A t, u \in DOMAIN session : callback[t].signin = callback[u].signin => t = u
  /\ \A b \in Browsers : Resolve(b) # None =>
       /\ BrowserOf(cookie[b]) = b
       /\ account[Resolve(b)].sub = SignInOf(cookie[b]).sub
=============================================================================
