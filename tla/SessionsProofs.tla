---------------------------- MODULE SessionsProofs ----------------------------
(***************************************************************************)
(* Proofs about Sessions, for any number of people, browsers, logins and   *)
(* requests.                                                               *)
(***************************************************************************)
EXTENDS Sessions, TLAPS

(* Only tokens that were made have a session.                                *)
OnlyIssued == \A t \in Tokens \ issued : sessions[t] = Nobody

(* What a handler has done so far: before GetUserIDFromSession it has no     *)
(* user ID, before its insertion no fleet and before its query no list.      *)
Progress ==
    \A r \in Requests :
        /\ phase[r] \in Waiting => userID[r] = Nobody
        /\ phase[r] \in Waiting \cup {"authorised", "resolved"} =>
              owner[r] = None /\ listed[r] = {}

(* The session SessionAuth saw has ended or is still that person's; the user *)
(* ID is read once, and the fleet is inserted for it.                        *)
ReadOnce ==
    \A r \in Requests :
        /\ phase[r] = "authorised" => SessionOf(r) \in {Nobody, who[r]}
        /\ userID[r] \in {Nobody, who[r]}
        /\ owner[r] \in {None, userID[r]}

Inv == TypeOK /\ OnlyIssued /\ Progress /\ ReadOnce /\ ListedIsCallers /\ PostedIsListed

LEMMA InvInit == Init => Inv
  BY SessionsAssumption DEF Init, Inv, TypeOK, OnlyIssued, Progress, ReadOnce,
     ListedIsCallers, PostedIsListed, Waiting, Working, Phases, SessionOf

(* Steps of the sessions that give no new meaning to a token somebody has.   *)
LEMMA SessionsStep ==
    ASSUME Inv, TypeOK', OnlyIssued', UNCHANGED requestVars,
           \A t \in issued : sessions'[t] \in {Nobody, sessions[t]}
    PROVE  Inv'
<1>1. \A r \in Requests : SessionOf(r)' \in {Nobody, SessionOf(r)}
  <2> TAKE r \in Requests
  <2>1. token[r] \in issued \cup {None} /\ token'[r] = token[r]
    BY DEF Inv, TypeOK, requestVars
  <2> QED
    BY <2>1 DEF SessionOf
<1>2. ReadOnce'
  BY <1>1 DEF Inv, ReadOnce, requestVars
<1>3. Progress' /\ ListedIsCallers' /\ PostedIsListed'
  BY DEF Inv, Progress, ListedIsCallers, PostedIsListed, requestVars
<1> QED
  BY <1>2, <1>3 DEF Inv

LEMMA InvStep == Inv /\ [Next]_vars => Inv'
<1> SUFFICES ASSUME Inv, [Next]_vars PROVE Inv'
  OBVIOUS
<1>0. TypeOK /\ OnlyIssued
  BY DEF Inv
<1>1. ASSUME NEW a \in Accounts, Signup(a) PROVE Inv'
  <2>1. TypeOK' /\ OnlyIssued'
    BY <1>0, <1>1 DEF Signup, TypeOK, OnlyIssued, sessionVars, requestVars
  <2> QED
    BY <1>1, <2>1, SessionsStep DEF Signup, sessionVars
<1>2. ASSUME NEW b \in Browsers, NEW a \in Accounts, Login(b, a) PROVE Inv'
  <2>1. PICK t \in Tokens \ issued :
          /\ sessions' = [sessions EXCEPT ![t] = EmailOf[a]]
          /\ issued' = issued \cup {t}
          /\ answers' = answers \cup {<<b, t>>}
    BY <1>2 DEF Login
  <2>2. EmailOf[a] \in Emails
    BY SessionsAssumption
  <2>3. TypeOK'
    BY <1>0, <1>2, <2>1, <2>2 DEF Login, TypeOK, requestVars
  <2>4. OnlyIssued'
    BY <1>0, <2>1 DEF TypeOK, OnlyIssued
  <2>5. \A s \in issued : sessions'[s] = sessions[s]
    BY <1>0, <2>1 DEF TypeOK
  <2> QED
    BY <1>2, <2>3, <2>4, <2>5, SessionsStep DEF Login
<1>3. ASSUME NEW b \in Browsers, Logout(b) PROVE Inv'
  <2>1. TypeOK' /\ OnlyIssued'
    BY <1>0, <1>3 DEF Logout, TypeOK, OnlyIssued, requestVars
  <2>2. \A t \in issued : sessions'[t] \in {Nobody, sessions[t]}
    BY <1>0, <1>3 DEF Logout, TypeOK
  <2> QED
    BY <1>3, <2>1, <2>2, SessionsStep DEF Logout
<1>4. ASSUME NEW b \in Browsers, NEW t \in Tokens \cup {None}, AnswerArrives(b, t)
      PROVE  Inv'
  <2>1. t \in issued \cup {None}
    BY <1>0, <1>4 DEF AnswerArrives, TypeOK
  <2>2. TypeOK' /\ OnlyIssued'
    BY <1>0, <1>4, <2>1 DEF AnswerArrives, TypeOK, OnlyIssued, requestVars
  <2> QED
    BY <1>4, <2>2, SessionsStep DEF AnswerArrives
<1>5. ASSUME NEW b \in Browsers, CookieExpires(b) PROVE Inv'
  <2>1. TypeOK' /\ OnlyIssued'
    BY <1>0, <1>5 DEF CookieExpires, TypeOK, OnlyIssued, requestVars
  <2> QED
    BY <1>5, <2>1, SessionsStep DEF CookieExpires
<1>6. CASE ServerRestart
  <2>1. TypeOK' /\ OnlyIssued'
    BY <1>0, <1>6 DEF ServerRestart, TypeOK, OnlyIssued, Phases, Working, Waiting
  <2>2. \A r \in Requests : phase'[r] = phase[r] \/ phase'[r] = "failed"
    BY <1>6 DEF ServerRestart
  <2>3. \A r \in Requests : phase'[r] # "authorised"
    BY <1>6 DEF ServerRestart, Working
  <2>4. Progress' /\ ReadOnce'
    BY <1>6, <2>2, <2>3 DEF ServerRestart, Inv, Progress, ReadOnce, Waiting
  <2>5. ListedIsCallers' /\ PostedIsListed'
    BY <1>6, <2>2 DEF ServerRestart, Inv, ListedIsCallers, PostedIsListed
  <2> QED
    BY <2>1, <2>4, <2>5 DEF Inv
<1>7. ASSUME NEW r \in Requests, NEW b \in Browsers, Send(r, b) PROVE Inv'
  <2>1. TypeOK' /\ OnlyIssued'
    BY <1>0, <1>7 DEF Send, TypeOK, OnlyIssued, Phases, Working, Waiting, sessionVars
  <2>2. \A q \in Requests : phase'[q] = IF q = r THEN "sent" ELSE phase[q]
    BY <1>0, <1>7 DEF Send, TypeOK
  <2>3. \A q \in Requests \ {r} : SessionOf(q)' = SessionOf(q)
    BY <1>0, <1>7 DEF Send, TypeOK, SessionOf, sessionVars
  <2>4. phase[r] = "idle"
    BY <1>7 DEF Send
  <2>5. Progress' /\ ReadOnce'
    BY <1>7, <2>2, <2>3, <2>4 DEF Send, Inv, Progress, ReadOnce, Waiting
  <2>6. ListedIsCallers' /\ PostedIsListed'
    BY <1>7, <2>2 DEF Send, Inv, ListedIsCallers, PostedIsListed
  <2> QED
    BY <2>1, <2>5, <2>6 DEF Inv
<1>8. ASSUME NEW r \in Requests, SessionAuth(r) PROVE Inv'
  <2>1. SessionOf(r) \in Emails \cup {Nobody}
    BY <1>0 DEF TypeOK, SessionOf
  <2>2. /\ phase[r] = "sent"
        /\ \A q \in Requests :
              /\ phase'[q] = IF q # r THEN phase[q]
                             ELSE IF SessionOf(r) = Nobody THEN "redirected"
                             ELSE "authorised"
              /\ who'[q] = IF q = r THEN SessionOf(r) ELSE who[q]
              /\ SessionOf(q)' = SessionOf(q)
    BY <1>0, <1>8 DEF SessionAuth, TypeOK, SessionOf, sessionVars
  <2>3. TypeOK' /\ OnlyIssued'
    <3>1. phase' \in [Requests -> Phases] /\ who' \in [Requests -> Emails \cup {Nobody}]
      BY <1>0, <1>8, <2>1 DEF SessionAuth, TypeOK, Phases, Working
    <3>2. \A q \in Requests : phase'[q] \in Working => who'[q] # Nobody
      BY <1>0, <2>2 DEF TypeOK, Working
    <3> QED
      BY <1>0, <1>8, <3>1, <3>2 DEF SessionAuth, TypeOK, OnlyIssued, sessionVars
  <2>4. userID[r] = Nobody /\ owner[r] = None /\ listed[r] = {}
    BY <2>2 DEF Inv, Progress, Waiting
  <2>5. Progress' /\ ReadOnce'
    BY <1>8, <2>2, <2>4 DEF SessionAuth, Inv, Progress, ReadOnce, Waiting
  <2>6. ListedIsCallers' /\ PostedIsListed'
    BY <1>8, <2>2, <2>4 DEF SessionAuth, Inv, ListedIsCallers, PostedIsListed
  <2> QED
    BY <2>3, <2>5, <2>6 DEF Inv
<1>9. ASSUME NEW r \in Requests, GetUserIDFromSession(r) PROVE Inv'
  <2>1. SessionOf(r) \in {Nobody, who[r]} /\ SessionOf(r) \in Emails \cup {Nobody}
    BY <1>0, <1>9 DEF GetUserIDFromSession, Inv, ReadOnce, TypeOK, SessionOf
  <2>2. /\ phase[r] = "authorised"
        /\ \A q \in Requests :
              /\ phase'[q] = IF q = r THEN "resolved" ELSE phase[q]
              /\ userID'[q] = IF q = r THEN SessionOf(r) ELSE userID[q]
              /\ SessionOf(q)' = SessionOf(q)
    BY <1>0, <1>9 DEF GetUserIDFromSession, TypeOK, SessionOf, sessionVars
  <2>3. TypeOK' /\ OnlyIssued'
    BY <1>0, <1>9, <2>1 DEF GetUserIDFromSession, TypeOK, OnlyIssued, Phases, Working,
       sessionVars
  <2>4. owner[r] = None
    BY <2>2 DEF Inv, Progress
  <2>5. Progress' /\ ReadOnce'
    BY <1>9, <2>1, <2>2, <2>4 DEF GetUserIDFromSession, Inv, Progress, ReadOnce, Waiting
  <2>6. ListedIsCallers' /\ PostedIsListed'
    BY <1>9, <2>2 DEF GetUserIDFromSession, Inv, ListedIsCallers, PostedIsListed
  <2> QED
    BY <2>3, <2>5, <2>6 DEF Inv
<1>10. ASSUME NEW r \in Requests, InsertFleet(r) PROVE Inv'
  <2>1. /\ phase[r] = "resolved"
        /\ \A q \in Requests :
              /\ SessionOf(q)' = SessionOf(q)
              /\ q # r => owner'[q] = owner[q] /\ phase'[q] = phase[q]
        /\ owner'[r] \in {owner[r], userID[r]}
        /\ phase'[r] \in {"inserted", "failed"}
    BY <1>0, <1>10 DEF InsertFleet, TypeOK, SessionOf, sessionVars
  <2>2. owner[r] = None /\ listed[r] = {}
    BY <2>1 DEF Inv, Progress
  <2>3. userID[r] \in {Nobody, who[r]}
    BY DEF Inv, ReadOnce
  <2>4. TypeOK' /\ OnlyIssued'
    <3>1. /\ owner' \in [Requests -> Emails \cup {Nobody, None}]
          /\ phase' \in [Requests -> Phases]
      BY <1>0, <1>10 DEF InsertFleet, TypeOK, Phases, Working
    <3>2. \A q \in Requests : phase'[q] \in Working => who[q] # Nobody
      BY <1>0, <2>1 DEF TypeOK, Working
    <3> QED
      BY <1>0, <1>10, <3>1, <3>2 DEF InsertFleet, TypeOK, OnlyIssued, sessionVars
  <2>5. Progress' /\ ReadOnce'
    BY <1>10, <2>1, <2>2 DEF InsertFleet, Inv, Progress, ReadOnce, Waiting
  <2>6. ListedIsCallers'
    <3>1. \A q \in Requests : \A f \in listed[q] : owner[f] # None /\ f \in Requests
      BY <1>0, SessionsAssumption DEF Inv, ListedIsCallers, TypeOK
    <3>2. \A q \in Requests : r \notin listed[q]
      BY <2>2, <3>1
    <3> QED
      BY <1>10, <2>1, <3>1, <3>2 DEF InsertFleet, Inv, ListedIsCallers
  <2>7. PostedIsListed'
    BY <1>10, <2>1 DEF InsertFleet, Inv, PostedIsListed
  <2> QED
    BY <2>4, <2>5, <2>6, <2>7 DEF Inv
<1>11. ASSUME NEW r \in Requests, FindFleets(r) PROVE Inv'
  <2>1. /\ phase[r] \in {"resolved", "inserted"}
        /\ \A q \in Requests :
              /\ SessionOf(q)' = SessionOf(q)
              /\ q # r => listed'[q] = listed[q] /\ phase'[q] = phase[q]
        /\ \/ /\ phase'[r] = "answered"
              /\ listed'[r] = {f \in Requests : owner[f] = userID[r]}
           \/ phase'[r] = "failed" /\ listed'[r] = listed[r]
    BY <1>0, <1>11 DEF FindFleets, TypeOK, SessionOf, sessionVars
  <2>2. userID[r] \in {Nobody, who[r]} /\ owner[r] \in {None, userID[r]}
    BY DEF Inv, ReadOnce
  <2>3. TypeOK' /\ OnlyIssued'
    <3>1. phase' \in [Requests -> Phases] /\ listed' \in [Requests -> SUBSET Requests]
      BY <1>0, <1>11 DEF FindFleets, TypeOK, Phases
    <3>2. \A q \in Requests : phase'[q] \in Working => who[q] # Nobody
      BY <1>0, <2>1 DEF TypeOK, Working
    <3> QED
      BY <1>0, <1>11, <3>1, <3>2 DEF FindFleets, TypeOK, OnlyIssued, sessionVars
  <2>4. Progress' /\ ReadOnce'
    BY <1>11, <2>1 DEF FindFleets, Inv, Progress, ReadOnce, Waiting
  <2>5. ListedIsCallers'
    BY <1>11, <2>1, <2>2 DEF FindFleets, Inv, ListedIsCallers
  <2>6. PostedIsListed'
    BY <1>11, <2>1, <2>2 DEF FindFleets, Inv, PostedIsListed
  <2> QED
    BY <2>3, <2>4, <2>5, <2>6 DEF Inv
<1>12. CASE UNCHANGED vars
  <2>1. TypeOK' /\ OnlyIssued'
    BY <1>0, <1>12 DEF vars, TypeOK, OnlyIssued, sessionVars, requestVars
  <2> QED
    BY <1>12, <2>1, SessionsStep DEF vars, sessionVars
<1> QED
  BY <1>1, <1>2, <1>3, <1>4, <1>5, <1>6, <1>7, <1>8, <1>9, <1>10, <1>11, <1>12
  DEF Next, RequestStep

LEMMA InvCorrect == Spec => []Inv
  BY InvInit, InvStep, PTL DEF Spec

(* Everything has its type; in particular a browser or a request holds only  *)
(* tokens that were made.                                                    *)
THEOREM TypeCorrect == Spec => []TypeOK
  BY InvCorrect, PTL DEF Inv

(* A fleet belongs to the person SessionAuth let through, or to nobody.      *)
THEOREM OwnerIsCallerCorrect == Spec => []OwnerIsCaller
<1>1. Inv => OwnerIsCaller
  BY DEF Inv, ReadOnce, OwnerIsCaller
<1> QED
  BY <1>1, InvCorrect, PTL

(* A page shows no other person's fleets.                                    *)
THEOREM ListedIsCallersCorrect == Spec => []ListedIsCallers
  BY InvCorrect, PTL DEF Inv

(* The answer to a POST shows the fleet it created.                          *)
THEOREM PostedIsListedCorrect == Spec => []PostedIsListed
  BY InvCorrect, PTL DEF Inv

(* No token comes back: a login makes one that nobody had before.            *)
THEOREM EndedStaysEndedCorrect == Spec => EndedStaysEnded
<1> DEFINE Ended == \A t \in issued : sessions[t] = Nobody => sessions'[t] = Nobody
<1>1. Inv /\ [Next]_vars => [Ended]_vars
  <2> SUFFICES ASSUME Inv, Next PROVE Ended
    BY DEF vars
  <2>1. TypeOK
    BY DEF Inv
  <2>2. ASSUME NEW b \in Browsers, NEW a \in Accounts, Login(b, a) PROVE Ended
    BY <2>1, <2>2 DEF Login, TypeOK
  <2>3. ASSUME NEW b \in Browsers, Logout(b) PROVE Ended
    BY <2>1, <2>3 DEF Logout, TypeOK
  <2>4. CASE ServerRestart
    BY <2>1, <2>4 DEF ServerRestart, TypeOK
  <2>5. CASE UNCHANGED sessions
    BY <2>5
  <2>6. \/ UNCHANGED sessions \/ ServerRestart
        \/ \E b \in Browsers : Logout(b) \/ \E a \in Accounts : Login(b, a)
    BY DEF Next, RequestStep, Signup, AnswerArrives, CookieExpires, Send,
       SessionAuth, GetUserIDFromSession, InsertFleet, FindFleets, sessionVars
  <2> QED
    BY <2>2, <2>3, <2>4, <2>5, <2>6
<1> QED
  BY <1>1, InvCorrect, PTL DEF Spec, EndedStaysEnded
=============================================================================
