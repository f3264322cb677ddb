------------------------------- MODULE Sessions -------------------------------
(***************************************************************************)
(* Accounts, sessions and fleets.  signup inserts a user; login finds one  *)
(* by e-mail, compares the password and stores a new random token in the   *)
(* sync.Map sessions, which the browser gets as a cookie; logout deletes   *)
(* the token.  A request for /fleets reads the map twice: SessionAuth lets *)
(* it through, and then GetUserIDFromSession says whose fleets it is       *)
(* about.  Logins, logouts and a restart of the server may come between    *)
(* any two of its steps, and answers reach a browser late or never.        *)
(***************************************************************************)


CONSTANTS
    Accounts,   \* users that people sign up as, each with its own password
    Emails,
    EmailOf,    \* the address each account is registered with
    Browsers,
    Tokens,     \* bound: the tokens generateSessionToken may make, one a login
    Requests,   \* bound: requests for /fleets; each may create one fleet
    Nobody,     \* "", the user ID without a session
    None        \* no token, or no fleet

ASSUME SessionsAssumption ==
    /\ EmailOf \in [Accounts -> Emails]
    /\ Nobody \notin Emails
    /\ None \notin Tokens \cup Emails \cup {Nobody}

VARIABLES
    users,      \* collection "user"
    sessions,   \* the map: the e-mail address of each token, or Nobody
    issued,     \* the tokens that were made
    cookie,     \* the session cookie of each browser
    answers,    \* Set-Cookie headers on their way: <<browser, token>>
    phase,      \* where the handler of each request for /fleets is
    token,      \* the cookie the request came with
    who,        \* whom SessionAuth let through (history)
    userID,     \* userID of the handler fleets
    owner,      \* collection "fleet": user_id of the fleet the request inserted
    listed      \* the fleets of the page it was answered with

sessionVars == <<sessions, issued, cookie, answers>>
requestVars == <<phase, token, who, userID, owner, listed>>
vars == <<users, sessionVars, requestVars>>

Waiting == {"idle", "sent"}
Working == {"authorised", "resolved", "inserted"}
Phases  == Waiting \cup Working \cup {"answered", "redirected", "failed"}

(* A handler gets past SessionAuth on behalf of somebody.                    *)
TypeOK ==
    /\ users \subseteq Accounts
    /\ sessions \in [Tokens -> Emails \cup {Nobody}]
    /\ issued \subseteq Tokens
    /\ cookie \in [Browsers -> issued \cup {None}]
    /\ answers \subseteq Browsers \X (issued \cup {None})
    /\ phase \in [Requests -> Phases]
    /\ token \in [Requests -> issued \cup {None}]
    /\ who \in [Requests -> Emails \cup {Nobody}]
    /\ \A r \in Requests : phase[r] \in Working => who[r] # Nobody
    /\ userID \in [Requests -> Emails \cup {Nobody}]
    /\ owner \in [Requests -> Emails \cup {Nobody, None}]
    /\ listed \in [Requests -> SUBSET Requests]

Init ==
    /\ users = {}
    /\ sessions = [t \in Tokens |-> Nobody]
    /\ issued = {}
    /\ cookie = [b \in Browsers |-> None]
    /\ answers = {}
    /\ phase = [r \in Requests |-> "idle"]
    /\ token = [r \in Requests |-> None]
    /\ who = [r \in Requests |-> Nobody]
    /\ userID = [r \in Requests |-> Nobody]
    /\ owner = [r \in Requests |-> None]
    /\ listed = [r \in Requests |-> {}]
-----------------------------------------------------------------------------
(***************************************************************************)
(* Accounts and sessions.                                                  *)
(***************************************************************************)

(* The address is not looked up: several accounts may have it.               *)
Signup(a) ==
    /\ a \notin users
    /\ users' = users \cup {a}
    /\ UNCHANGED <<sessionVars, requestVars>>

(* Mutant: a browser that has a token keeps it.                              *)
LoginReusesCookie(b, a) ==
    /\ a \in users
    /\ \E t \in IF cookie[b] = None THEN Tokens \ issued ELSE {cookie[b]} :
          /\ sessions' = [sessions EXCEPT ![t] = EmailOf[a]]
          /\ issued' = issued \cup {t}
          /\ answers' = answers \cup {<<b, t>>}
    /\ UNCHANGED <<users, cookie, requestVars>>

(* FindOne gives an account with the address, whichever it likes; the        *)
(* password fits if it is a.  Any other outcome redirects and changes        *)
(* nothing.  The session is for the address, and earlier ones stay.          *)
Login(b, a) ==
    /\ a \in users
    /\ \E t \in Tokens \ issued :
          /\ sessions' = [sessions EXCEPT ![t] = EmailOf[a]]
          /\ issued' = issued \cup {t}
          /\ answers' = answers \cup {<<b, t>>}
    /\ UNCHANGED <<users, cookie, requestVars>>

(* LoadAndDelete of the cookie's token; the answer clears the cookie.        *)
Logout(b) ==
    /\ sessions' = [t \in Tokens |-> IF t = cookie[b] THEN Nobody ELSE sessions[t]]
    /\ answers' = answers \cup {<<b, None>>}
    /\ UNCHANGED <<users, issued, cookie, requestVars>>

(* setSessionCookie, seen from the browser.  A lost answer sets nothing.     *)
AnswerArrives(b, t) ==
    /\ <<b, t>> \in answers
    /\ cookie' \in {cookie, [cookie EXCEPT ![b] = t]}
    /\ answers' = answers \ {<<b, t>>}
    /\ UNCHANGED <<users, sessions, issued, requestVars>>

(* MaxAge, 24 hours: the browser forgets its cookie, the server no session.  *)
CookieExpires(b) ==
    /\ cookie[b] # None
    /\ cookie' = [cookie EXCEPT ![b] = None]
    /\ UNCHANGED <<users, sessions, issued, answers, requestVars>>

(* The map is in memory: a restart logs everybody out, and the handlers end. *)
ServerRestart ==
    /\ sessions' = [t \in Tokens |-> Nobody]
    /\ phase' = [r \in Requests |->
          IF phase[r] \in Working \cup {"sent"} THEN "failed" ELSE phase[r]]
    /\ UNCHANGED <<users, issued, cookie, answers, token, who, userID, owner, listed>>
-----------------------------------------------------------------------------
(***************************************************************************)
(* A request for /fleets.                                                  *)
(***************************************************************************)
Send(r, b) ==
    /\ phase[r] = "idle"
    /\ phase' = [phase EXCEPT ![r] = "sent"]
    /\ token' = [token EXCEPT ![r] = cookie[b]]
    /\ UNCHANGED <<users, sessionVars, who, userID, owner, listed>>

(* sessions.Load of the request's cookie.                                    *)
SessionOf(r) == IF token[r] = None THEN Nobody ELSE sessions[token[r]]

(* Mutant: a request with a cookie is let through, whatever the map says.    *)
SessionAuthAnyCookie(r) ==
    /\ phase[r] = "sent"
    /\ phase' = [phase EXCEPT ![r] =
          IF token[r] = None THEN "redirected" ELSE "authorised"]
    /\ who' = [who EXCEPT ![r] = SessionOf(r)]
    /\ UNCHANGED <<users, sessionVars, token, userID, owner, listed>>

(* Without a session the request is redirected to /login.                    *)
SessionAuth(r) ==
    /\ phase[r] = "sent"
    /\ phase' = [phase EXCEPT ![r] =
          IF SessionOf(r) = Nobody THEN "redirected" ELSE "authorised"]
    /\ who' = [who EXCEPT ![r] = SessionOf(r)]
    /\ UNCHANGED <<users, sessionVars, token, userID, owner, listed>>

(* The handler fleets begins.  The session may be gone by now.               *)
GetUserIDFromSession(r) ==
    /\ phase[r] = "authorised"
    /\ phase' = [phase EXCEPT ![r] = "resolved"]
    /\ userID' = [userID EXCEPT ![r] = SessionOf(r)]
    /\ UNCHANGED <<users, sessionVars, token, who, owner, listed>>

(* POST: InsertOne of the fleet.  An error leaves it open whether it is      *)
(* there.                                                                    *)
InsertFleet(r) ==
    /\ phase[r] = "resolved"
    /\ \/ /\ owner' = [owner EXCEPT ![r] = userID[r]]
          /\ phase' = [phase EXCEPT ![r] = "inserted"]
       \/ /\ owner' \in {owner, [owner EXCEPT ![r] = userID[r]]}
          /\ phase' = [phase EXCEPT ![r] = "failed"]
    /\ UNCHANGED <<users, sessionVars, token, who, userID, listed>>

(* Mutant: the list asks for the session's user once more.                   *)
FindFleetsRereads(r) ==
    /\ phase[r] \in {"resolved", "inserted"}
    /\ listed' = [listed EXCEPT ![r] = {f \in Requests : owner[f] = SessionOf(r)}]
    /\ phase' = [phase EXCEPT ![r] = "answered"]
    /\ UNCHANGED <<users, sessionVars, token, who, userID, owner>>

(* FindAll of the user's fleets, on GET at once and on POST after the        *)
(* insertion; an error answers 500.                                          *)
FindFleets(r) ==
    /\ phase[r] \in {"resolved", "inserted"}
    /\ \/ /\ listed' = [listed EXCEPT ![r] = {f \in Requests : owner[f] = userID[r]}]
          /\ phase' = [phase EXCEPT ![r] = "answered"]
       \/ /\ phase' = [phase EXCEPT ![r] = "failed"]
          /\ UNCHANGED listed
    /\ UNCHANGED <<users, sessionVars, token, who, userID, owner>>
-----------------------------------------------------------------------------
RequestStep(r) ==
    \/ \E b \in Browsers : Send(r, b)
    \/ SessionAuth(r) \/ GetUserIDFromSession(r) \/ InsertFleet(r) \/ FindFleets(r)

Next ==
    \/ \E a \in Accounts : Signup(a) \/ \E b \in Browsers : Login(b, a)
    \/ \E b \in Browsers :
          \/ Logout(b) \/ CookieExpires(b)
          \/ \E t \in Tokens \cup {None} : AnswerArrives(b, t)
    \/ ServerRestart
    \/ \E r \in Requests : RequestStep(r)

Spec == Init /\ [][Next]_vars
-----------------------------------------------------------------------------
(***************************************************************************)
(* Properties.                                                             *)
(***************************************************************************)

(* A fleet belongs to the person whose request SessionAuth let through, or   *)
(* to nobody when that person logged out in between - never to the next one  *)
(* to log in, be it in the same browser.                                     *)
OwnerIsCaller ==
    \A f \in Requests : owner[f] \in {None, Nobody, who[f]}

(* A page never shows the fleets of anyone but that person.                  *)
ListedIsCallers ==
    \A r \in Requests : \A f \in listed[r] : owner[f] \in {Nobody, who[r]}

(* The page that answers a POST shows the fleet it made, although the        *)
(* session may end between the insertion and the query.                      *)
PostedIsListed ==
    \A r \in Requests : phase[r] = "answered" /\ owner[r] # None => r \in listed[r]

(* A session that has ended stays ended: no later login, in whichever        *)
(* browser and with whichever cookie left over, brings its token back.       *)
EndedStaysEnded ==
    [][\A t \in issued : sessions[t] = Nobody => sessions'[t] = Nobody]_vars
=============================================================================
