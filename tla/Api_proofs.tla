----------------------------- MODULE Api_proofs -----------------------------
(***************************************************************************)
(* The groups a request is decided with, for any number of threads, users  *)
(* and groups, any age of the cache and any duration of the requests.      *)
(***************************************************************************)
EXTENDS Api, TLAPS

\* What an entry says is from before, and its time stamp at most twice the
\* duration of a request younger than its groups.
EntryAge(e) ==
    /\ e.timestamp # None => e.timestamp <= now
    /\ e.groups # None => e.groups.at <= now
    /\ e.timestamp # None /\ e.groups # None => e.timestamp <= e.groups.at + 2 * Patience

\* A request in progress is not older than Patience; what it was told, it was
\* told since it began; who is about to read or to complete an entry finds
\* groups of a time that is known.
SessionAge(p) ==
    LET s == auth[p]
        entry == cache[s.user]
    IN
    /\ ~AuthAt(p, "idle") =>
          /\ s.user \in User
          /\ s.began <= now /\ now <= s.began + Patience
    /\ AuthAt(p, "clear") \/ AuthAt(p, "stamp") \/ AuthAt(p, "store") =>
          s.answer # None /\ s.began <= s.answer.at /\ s.answer.at <= now
    /\ AuthAt(p, "decide") =>
          s.answer # None /\ s.began < s.answer.at + CacheTimeout + 2 * Patience
    /\ AuthAt(p, "age") \/ AuthAt(p, "read") \/ AuthAt(p, "stamp") \/ AuthAt(p, "store") =>
          entry # None
    /\ AuthAt(p, "read") /\ entry.groups # None =>
          s.began < entry.groups.at + CacheTimeout + 2 * Patience
    /\ AuthAt(p, "stamp") /\ entry.groups # None =>
          s.began <= entry.groups.at + Patience

AgeInv ==
    /\ AuthTypeOK
    /\ accounts \subseteq User
    /\ \A u \in User : cache[u] # None => EntryAge(cache[u])
    /\ \A p \in Client : SessionAge(p)

\* What a step of the server is for the authentication.
Ended(p) == auth' = [auth EXCEPT ![p] = NoSession] /\ UNCHANGED <<now, ipa, cache>>

Verified(p) ==
    /\ AuthAt(p, "idle")
    /\ \E u \in User : auth' = [auth EXCEPT ![p] = NewSession(u, "granted")]
    /\ UNCHANGED <<now, ipa, cache>>

AuthNext ==
    \/ \E p \in Client : \/ \E u \in User : Authenticate(p, u)
                         \/ AuthStep(p) \/ Ended(p) \/ Verified(p)
    \/ \E u \in User : ChangeGroups(u)
    \/ Tick
    \/ UNCHANGED authVars

(* Promotions, votes and what operators do leave the authentication alone, *)
(* but for the end of a request.                                           *)
LEMMA ApiStep ==
  ASSUME accounts \subseteq User, [Next]_vars
  PROVE  AuthNext /\ (accounts' \subseteq User)
<1>1. CASE UNCHANGED vars
  BY <1>1 DEF vars, apiVars, AuthNext
<1>2. ASSUME NEW p \in Client,
             Negotiate(p) \/ VerifyPassword(p) \/ Serve(p) \/ Kill(p)
      PROVE  AuthNext /\ (accounts' \subseteq User)
  <2>1. CASE Negotiate(p)
    BY <2>1 DEF Negotiate, AuthNext
  <2>2. CASE VerifyPassword(p)
    BY <2>2 DEF VerifyPassword, Idle, Verified, AuthNext
  <2>3. CASE Authorization(p)
    BY <2>3 DEF Authorization, apiVars, AuthNext
  <2>4. CASE Promote(p)
    BY <2>4 DEF Promote, apiVars, AuthNext
  <2>5. CASE Handle(p)
    BY <2>5 DEF Handle, Ended, authVars, AuthNext
  <2>6. CASE Kill(p)
    BY <2>6 DEF Kill, apiVars, Ended, AuthNext
  <2>7. CASE Report(p) \/ ReportAgg(p) \/ Test(p) \/ Respond(p)
    BY <2>7 DEF Report, ReportAgg, Test, Respond, Granted, Ended, AuthNext
  <2> QED  BY <1>2, <2>1, <2>2, <2>3, <2>4, <2>5, <2>6, <2>7 DEF Serve
<1>3. CASE Administer
  <2>1. CASE Recheck
    BY <2>1 DEF Recheck, AuthNext
  <2>2. CASE (\E u \in User : CreateUser(u) \/ DeleteUser(u)) /\ UNCHANGED <<tableVars, authVars>>
    BY <2>2 DEF CreateUser, DeleteUser, AuthNext
  <2>3. CASE (\E u \in User : ChangeGroups(u)) /\ UNCHANGED <<tableVars, accounts>>
    BY <2>3 DEF AuthNext
  <2> QED  BY <1>3, <2>1, <2>2, <2>3 DEF Administer
<1>4. CASE Clock
  BY <1>4 DEF Clock, apiVars, AuthNext
<1> QED  BY <1>1, <1>2, <1>3, <1>4 DEF Next

-----------------------------------------------------------------------------
(* The parts of the invariant a step leaves alone.                         *)
LEMMA SessionKept ==
  ASSUME AgeInv, NEW q \in Client, UNCHANGED <<now, cache>>,
         auth'[q].pc = auth[q].pc, auth'[q].user = auth[q].user,
         auth'[q].began = auth[q].began, auth'[q].answer = auth[q].answer
  PROVE  SessionAge(q)'
BY DEF AgeInv, SessionAge, AuthAt

LEMMA EntriesKept ==
  ASSUME AgeInv, UNCHANGED <<now, cache>>
  PROVE  (\A u \in User : cache[u] # None => EntryAge(cache[u]))'
BY DEF AgeInv, EntryAge

LEMMA IdleAge ==
  ASSUME NEW q \in Client, auth'[q].pc \in {"idle", "granted"},
         auth'[q].pc = "granted" =>
             auth'[q].user \in User /\ auth'[q].began <= now' /\ now' <= auth'[q].began + Patience
  PROVE  SessionAge(q)'
BY DEF SessionAge, AuthAt

LEMMA NoSessionType == NoSession \in Session /\ NoSession.pc = "idle"
<1>1. 0 \in 0..(MaxRetry - 1)
  BY AuthAssumption
<1> QED  BY <1>1 DEF NoSession, Session, AuthPC, Remote

(* A request that is over, refused or answered.                            *)
LEMMA EndedAge ==
  ASSUME AgeInv, NEW p \in Client, Ended(p), accounts' \subseteq User
  PROVE  AgeInv'
<1>1. AuthTypeOK'
  BY NoSessionType DEF Ended, AgeInv, AuthTypeOK
<1>2. ASSUME NEW q \in Client
      PROVE  SessionAge(q)'
  <2>1. CASE q = p
    <3>1. auth'[q].pc = "idle"
      BY <2>1, NoSessionType DEF Ended, AgeInv, AuthTypeOK
    <3> QED  BY <3>1, IdleAge
  <2>2. CASE q # p
    BY <2>2, SessionKept DEF Ended, AgeInv, AuthTypeOK
  <2> QED  BY <2>1, <2>2
<1> QED  BY <1>1, <1>2, EntriesKept DEF Ended, AgeInv

LEMMA Leaves ==
  ASSUME NEW p \in Client, Leave(p), UNCHANGED <<now, ipa, cache>>
  PROVE  Ended(p)
BY DEF Leave, Ended

(* A step of one thread that changes nothing but its own session.          *)
LEMMA OwnAge ==
  ASSUME AgeInv, NEW p \in Client, NEW s \in Session, auth' = [auth EXCEPT ![p] = s],
         UNCHANGED <<now, ipa, cache>>, accounts' \subseteq User, SessionAge(p)'
  PROVE  AgeInv'
<1>1. AuthTypeOK'
  BY DEF AgeInv, AuthTypeOK
<1>2. ASSUME NEW q \in Client \ {p}
      PROVE  SessionAge(q)'
  BY SessionKept DEF AgeInv, AuthTypeOK
<1> QED  BY <1>1, <1>2, EntriesKept DEF AgeInv

LEMMA ProceedAge ==
  ASSUME AgeInv, NEW p \in Client, NEW l \in AuthPC, Proceed(p, l)
  PROVE  /\ auth' = [auth EXCEPT ![p] = [auth[p] EXCEPT !.pc = l]]
         /\ [auth[p] EXCEPT !.pc = l] \in Session
         /\ auth'[p].pc = l /\ auth'[p].user = auth[p].user
         /\ auth'[p].began = auth[p].began /\ auth'[p].answer = auth[p].answer
BY DEF AgeInv, AuthTypeOK, Session, Proceed

(* Asking IPA: the names may get mixed up, the ages do not.                *)
LEMMA AskAge ==
  ASSUME AgeInv, NEW p \in Client, ~AuthAt(p, "idle"), Ask(p), UNCHANGED <<now, ipa, cache>>,
         accounts' \subseteq User
  PROVE  AgeInv'
<1>0. \A q \in Asking \cup {p} : auth[q].user \in User
  BY DEF AgeInv, SessionAge, AuthAt, Asking, Remote
<1>1. AuthTypeOK'
  <2>1. ASSUME NEW q \in Client
        PROVE  auth'[q] \in Session
    <3>1. auth[q] \in Session
      BY DEF AgeInv, AuthTypeOK
    <3>2. CASE q = p
      <4>1. {auth[a].user : a \in Asking \cup {p}} \in SUBSET User
        BY <1>0
      <4> QED  BY <3>1, <3>2, <4>1 DEF Ask, Session, AuthPC, Remote
    <3>3. CASE q # p /\ q \in Asking
      <4>1. auth[q].names \cup {auth[p].user} \in SUBSET User
        BY <1>0, <3>1 DEF Session
      <4>2. auth'[q] = [auth[q] EXCEPT !.names = auth[q].names \cup {auth[p].user}]
        BY <3>3 DEF Ask
      <4> QED  BY <3>1, <4>1, <4>2 DEF Session
    <3>4. CASE q # p /\ q \notin Asking
      BY <3>1, <3>4 DEF Ask
    <3> QED  BY <3>2, <3>3, <3>4
  <2>2. auth' = [q \in Client |-> auth'[q]]
    BY DEF Ask
  <2> QED  BY <2>1, <2>2 DEF AgeInv, AuthTypeOK
<1>2. ASSUME NEW q \in Client
      PROVE  SessionAge(q)'
  <2>0. auth[q] \in Session
    BY DEF AgeInv, AuthTypeOK
  <2>1. CASE q = p
    <3>1. auth'[q].pc = "kinit" /\ auth'[q].user = auth[q].user /\ auth'[q].began = auth[q].began
      BY <2>0, <2>1 DEF Ask, Session
    <3> QED  BY <2>1, <3>1 DEF AgeInv, SessionAge, AuthAt
  <2>2. CASE q # p
    <3>1. /\ auth'[q].pc = auth[q].pc /\ auth'[q].user = auth[q].user
          /\ auth'[q].began = auth[q].began /\ auth'[q].answer = auth[q].answer
      BY <2>0, <2>2 DEF Ask, Session
    <3> QED  BY <3>1, SessionKept
  <2> QED  BY <2>1, <2>2
<1> QED  BY <1>1, <1>2, EntriesKept DEF AgeInv

LEMMA BeginsAge ==
  ASSUME AgeInv, NEW p \in Client, Verified(p) \/ \E u \in User : Authenticate(p, u),
         accounts' \subseteq User
  PROVE  AgeInv'
<1>1. PICK u \in User, l \in {"lookup", "granted"} :
        auth' = [auth EXCEPT ![p] = NewSession(u, l)] /\ UNCHANGED <<now, ipa, cache>>
  BY DEF Verified, Authenticate
<1> DEFINE s == NewSession(u, l)
<1>2. now \in Nat /\ l \in AuthPC /\ 0 \in 0..(MaxRetry - 1)
  BY AuthAssumption DEF AgeInv, AuthTypeOK, AuthPC
<1>3. s \in Session /\ s.pc = l /\ s.user = u /\ s.began = now
  BY <1>2 DEF Session, NewSession
<1>4. auth'[p] = s
  BY <1>1 DEF AgeInv, AuthTypeOK
<1> HIDE DEF s
<1>5. SessionAge(p)'
  BY <1>1, <1>2, <1>3, <1>4, AuthAssumption DEF SessionAge, AuthAt
<1> QED  BY <1>1, <1>3, <1>5, OwnAge DEF s

LEMMA LookupAge ==
  ASSUME AgeInv, NEW p \in Client, Lookup(p), accounts' \subseteq User
  PROVE  AgeInv'
<1>1. CASE Ask(p)
  BY <1>1, AskAge DEF Lookup, AuthAt
<1>2. CASE ~Ask(p)
  <2>1. Proceed(p, "age") /\ "age" \in AuthPC /\ cache[auth[p].user] # None
    BY <1>2 DEF Lookup, AuthPC
  <2>2. SessionAge(p)'
    BY <2>1, ProceedAge DEF Lookup, AgeInv, SessionAge, AuthAt
  <2> QED  BY <2>1, <2>2, ProceedAge, OwnAge DEF Lookup
<1> QED  BY <1>1, <1>2

LEMMA CheckAgeAge ==
  ASSUME AgeInv, NEW p \in Client, CheckAge(p), accounts' \subseteq User
  PROVE  AgeInv'
<1> DEFINE u == auth[p].user
           stamp == cache[u].timestamp
<1>0. u \in User /\ cache[u] # None /\ cache[u] \in Entry /\ EntryAge(cache[u]) /\ ~AuthAt(p, "idle")
  BY DEF CheckAge, AgeInv, AuthTypeOK, SessionAge, AuthAt
<1>1. CASE stamp = None
  BY <1>1, Leaves, EndedAge DEF CheckAge
<1>2. CASE stamp # None /\ now - stamp < CacheTimeout
  <2>1. Proceed(p, "read") /\ "read" \in AuthPC
    BY <1>2 DEF CheckAge, AuthPC
  <2>2. /\ auth'[p].pc = "read" /\ auth'[p].user = u
        /\ auth'[p].began = auth[p].began
    BY <2>1, ProceedAge
  <2>3. auth[p].began \in Nat /\ now \in Nat /\ auth[p].began <= now /\ now <= auth[p].began + Patience
    BY <1>0 DEF AgeInv, AuthTypeOK, SessionAge, Session
  <2>4. cache[u].groups # None => auth[p].began < cache[u].groups.at + CacheTimeout + 2 * Patience
    <3> SUFFICES ASSUME cache[u].groups # None
                 PROVE  auth[p].began < cache[u].groups.at + CacheTimeout + 2 * Patience
      OBVIOUS
    <3>1. stamp \in Nat /\ cache[u].groups.at \in Nat /\ stamp <= cache[u].groups.at + 2 * Patience
      BY <1>0, <1>2 DEF Entry, EntryAge, Answer
    <3> QED  BY <1>2, <2>3, <3>1, AuthAssumption
  <2>5. SessionAge(p)'
    BY <1>0, <2>2, <2>3, <2>4 DEF CheckAge, SessionAge, AuthAt
  <2> QED  BY <2>1, <2>5, ProceedAge, OwnAge DEF CheckAge
<1>3. CASE stamp # None /\ ~(now - stamp < CacheTimeout)
  BY <1>0, <1>3, AskAge DEF CheckAge
<1> QED  BY <1>1, <1>2, <1>3

LEMMA ReadCacheAge ==
  ASSUME AgeInv, NEW p \in Client, ReadCache(p), accounts' \subseteq User
  PROVE  AgeInv'
<1> DEFINE u == auth[p].user
           found == cache[u].groups
           s == [auth[p] EXCEPT !.pc = "decide", !.answer = found]
<1>0. u \in User /\ cache[u] \in Entry /\ auth[p] \in Session
  BY DEF ReadCache, AgeInv, AuthTypeOK, SessionAge, AuthAt
<1>1. CASE found = None
  BY <1>1, Leaves, EndedAge DEF ReadCache
<1>2. CASE found # None
  <2>1. auth' = [auth EXCEPT ![p] = s] /\ UNCHANGED <<now, ipa, cache>>
    BY <1>2 DEF ReadCache
  <2>2. s \in Session /\ s.pc = "decide" /\ s.answer = found /\ s.began = auth[p].began /\ s.user = u
    BY <1>0 DEF Session, AuthPC, Entry
  <2>3. auth'[p] = s
    BY <2>1 DEF AgeInv, AuthTypeOK
  <2> HIDE DEF s
  <2>4. auth[p].began < found.at + CacheTimeout + 2 * Patience /\ s.began <= now /\ now <= s.began + Patience
    BY <1>2, <2>2 DEF ReadCache, AgeInv, SessionAge, AuthAt
  <2>5. SessionAge(p)'
    BY <1>0, <1>2, <2>1, <2>2, <2>3, <2>4 DEF SessionAge, AuthAt
  <2> QED  BY <2>1, <2>2, <2>5, OwnAge
<1> QED  BY <1>1, <1>2

LEMMA CallSucceedsAge ==
  ASSUME AgeInv, NEW p \in Client, CallSucceeds(p), accounts' \subseteq User
  PROVE  AgeInv'
<1>4. auth[p].pc \in Remote /\ UNCHANGED <<now, ipa, cache>>
  BY DEF CallSucceeds
<1>0. auth[p] \in Session /\ auth[p].user \in User /\ now \in Nat /\ 0 \in 0..(MaxRetry - 1)
  BY <1>4, AuthAssumption DEF AgeInv, AuthTypeOK, SessionAge, AuthAt, Remote
<1>1. auth[p].began <= now /\ now <= auth[p].began + Patience
  BY <1>4 DEF AgeInv, SessionAge, AuthAt, Remote
<1>2. CASE AuthAt(p, "show")
  <2>1. PICK u \in auth[p].names :
          auth' = [auth EXCEPT ![p] = [auth[p] EXCEPT !.pc = "clear", !.tries = 0, !.names = {},
                                          !.answer = [groups |-> ipa[u], at |-> now]]]
    BY <1>2 DEF CallSucceeds
  <2> DEFINE answer == [groups |-> ipa[u], at |-> now]
             s == [auth[p] EXCEPT !.pc = "clear", !.tries = 0, !.names = {}, !.answer = answer]
  <2>2. answer \in Answer /\ answer.at = now
    <3>1. u \in User
      BY <1>0 DEF Session
    <3>2. ipa[u] \in SUBSET Group
      BY <3>1, AuthAssumption DEF AgeInv, AuthTypeOK
    <3> QED  BY <1>0, <3>2 DEF Answer
  <2>3. answer # None
    BY <2>2, AuthAssumption DEF Answer
  <2> HIDE DEF answer
  <2>4. s \in Session /\ s.pc = "clear" /\ s.answer = answer /\ s.began = auth[p].began /\ s.user = auth[p].user
    BY <1>0, <2>2 DEF Session, AuthPC
  <2>5. auth'[p] = s
    BY <2>1 DEF AgeInv, AuthTypeOK, answer
  <2> HIDE DEF s
  <2>6. SessionAge(p)'
    BY <1>0, <1>1, <1>4, <2>2, <2>3, <2>4, <2>5 DEF SessionAge, AuthAt
  <2>7. auth' = [auth EXCEPT ![p] = s]
    BY <2>1 DEF s, answer
  <2> QED  BY <1>4, <2>4, <2>6, <2>7, OwnAge
<1>3. CASE ~AuthAt(p, "show")
  <2> DEFINE s == [auth[p] EXCEPT !.pc = After(auth[p].pc), !.tries = 0]
  <2>1. auth' = [auth EXCEPT ![p] = s]
    BY <1>3 DEF CallSucceeds
  <2>2. s \in Session /\ s.pc \in {"connect", "show"} /\ s.began = auth[p].began /\ s.user = auth[p].user
    BY <1>0 DEF Session, AuthPC, Remote, After
  <2>3. auth'[p] = s
    BY <2>1 DEF AgeInv, AuthTypeOK
  <2> HIDE DEF s
  <2>4. SessionAge(p)'
    BY <1>0, <1>1, <1>4, <2>2, <2>3 DEF SessionAge, AuthAt
  <2> QED  BY <1>4, <2>1, <2>2, <2>4, OwnAge
<1> QED  BY <1>2, <1>3

LEMMA CallFailsAge ==
  ASSUME AgeInv, NEW p \in Client, CallFails(p) \/ CallRaises(p), accounts' \subseteq User
  PROVE  AgeInv'
<1> DEFINE s == [auth[p] EXCEPT !.tries = auth[p].tries + 1]
<1>1. CASE Leave(p)
  BY <1>1, Leaves, EndedAge DEF CallFails, CallRaises
<1>2. CASE ~Leave(p)
  <2>1. auth[p].tries + 1 < MaxRetry /\ auth' = [auth EXCEPT ![p] = s] /\ UNCHANGED <<now, ipa, cache>>
    BY <1>2 DEF CallFails, CallRaises
  <2>2. auth[p] \in Session /\ auth[p].tries \in Nat
    BY DEF AgeInv, AuthTypeOK, Session
  <2>3. auth[p].tries + 1 \in 0..(MaxRetry - 1)
    BY <2>1, <2>2, AuthAssumption
  <2>4. /\ s \in Session /\ s.pc = auth[p].pc /\ s.user = auth[p].user
        /\ s.began = auth[p].began /\ s.answer = auth[p].answer
    BY <2>2, <2>3 DEF Session
  <2>5. auth'[p] = s
    BY <2>1 DEF AgeInv, AuthTypeOK
  <2> HIDE DEF s
  <2>6. SessionAge(p)'
    BY <2>1, <2>4, <2>5, SessionKept
  <2> QED  BY <2>1, <2>4, <2>6, OwnAge
<1> QED  BY <1>1, <1>2

LEMMA DecideAge ==
  ASSUME AgeInv, NEW p \in Client, Decide(p), accounts' \subseteq User
  PROVE  AgeInv'
<1> DEFINE s == [auth[p] EXCEPT !.pc = "granted", !.answer = None]
<1>1. CASE Leave(p)
  BY <1>1, Leaves, EndedAge DEF Decide
<1>2. CASE ~Leave(p)
  <2>1. auth' = [auth EXCEPT ![p] = s] /\ UNCHANGED <<now, ipa, cache>>
    BY <1>2 DEF Decide
  <2>2. s \in Session /\ s.pc = "granted" /\ s.user = auth[p].user /\ s.began = auth[p].began
    BY DEF AgeInv, AuthTypeOK, Session, AuthPC
  <2>3. auth'[p] = s
    BY <2>1 DEF AgeInv, AuthTypeOK
  <2> HIDE DEF s
  <2>4. SessionAge(p)'
    BY <2>1, <2>2, <2>3, IdleAge DEF Decide, AgeInv, SessionAge, AuthAt
  <2> QED  BY <2>1, <2>2, <2>4, OwnAge
<1> QED  BY <1>1, <1>2

(* A thread writes the entry of its user: the groups in it are those that  *)
(* were there, or not older than a request that lasts.                     *)
LEMMA WriteAge ==
  ASSUME AgeInv, NEW p \in Client, NEW l \in AuthPC, Proceed(p, l), ~AuthAt(p, "idle"),
         NEW e \in Entry, cache' = [cache EXCEPT ![auth[p].user] = e], UNCHANGED <<now, ipa>>,
         EntryAge(e),
         \/ e.groups = None
         \/ now <= e.groups.at + Patience
         \/ cache[auth[p].user] # None /\ e.groups = cache[auth[p].user].groups,
         accounts' \subseteq User, SessionAge(p)'
  PROVE  AgeInv'
<1> DEFINE u == auth[p].user
<1>0. u \in User /\ now \in Nat /\ e # None /\ cache'[u] = e
  BY AuthAssumption DEF AgeInv, AuthTypeOK, SessionAge, Entry, Answer
<1>1. AuthTypeOK'
  BY ProceedAge, <1>0 DEF AgeInv, AuthTypeOK
<1>2. ASSUME NEW v \in User, cache'[v] # None
      PROVE  EntryAge(cache[v])'
  <2>1. CASE v = u
    BY <1>0, <2>1 DEF EntryAge
  <2>2. CASE v # u
    BY <1>2, <2>2 DEF AgeInv, AuthTypeOK, EntryAge
  <2> QED  BY <2>1, <2>2
<1>3. ASSUME NEW q \in Client \ {p}
      PROVE  SessionAge(q)'
  <2>0. auth'[q] = auth[q] /\ auth[q] \in Session /\ SessionAge(q)
    BY DEF Proceed, AgeInv, AuthTypeOK
  <2>1. CASE auth[q].user # u
    <3>1. AuthAt(q, "idle") \/ cache'[auth[q].user] = cache[auth[q].user]
      BY <2>0, <2>1 DEF AgeInv, AuthTypeOK, SessionAge
    <3> QED  BY <2>0, <3>1 DEF SessionAge, AuthAt
  <2>2. CASE AuthAt(q, "idle")
    BY <2>0, <2>2 DEF SessionAge, AuthAt
  <2>3. CASE auth[q].user = u /\ ~AuthAt(q, "idle")
    <3>1. /\ auth[q].began \in Nat /\ auth[q].began <= now
          /\ e.groups # None => e.groups.at \in Nat
      BY <2>0, <2>3 DEF Session, SessionAge, Entry, Answer
    <3>2. AuthAt(q, "read") /\ e.groups # None =>
             auth[q].began < e.groups.at + CacheTimeout + 2 * Patience
      BY <1>0, <2>0, <2>3, <3>1, AuthAssumption DEF SessionAge
    <3>3. AuthAt(q, "stamp") /\ e.groups # None => auth[q].began <= e.groups.at + Patience
      BY <1>0, <2>0, <2>3, <3>1, AuthAssumption DEF SessionAge
    <3> QED  BY <1>0, <2>0, <2>3, <3>2, <3>3 DEF SessionAge, AuthAt
  <2> QED  BY <2>1, <2>2, <2>3
<1> QED  BY <1>1, <1>2, <1>3 DEF AgeInv

LEMMA ClearAge ==
  ASSUME AgeInv, NEW p \in Client, Clear(p), accounts' \subseteq User
  PROVE  AgeInv'
<1>1. EmptyEntry \in Entry /\ EmptyEntry # None /\ EmptyEntry.groups = None /\ EntryAge(EmptyEntry)
  BY AuthAssumption DEF EmptyEntry, Entry, Answer, EntryAge
<1>2. Proceed(p, "stamp") /\ "stamp" \in AuthPC /\ ~AuthAt(p, "idle") /\ UNCHANGED <<now, ipa>>
  BY DEF Clear, AuthPC, AuthAt
<1>3. cache' = [cache EXCEPT ![auth[p].user] = EmptyEntry] /\ cache'[auth[p].user] = EmptyEntry
  BY <1>2 DEF Clear, AgeInv, AuthTypeOK, SessionAge
<1>4. SessionAge(p)'
  BY <1>1, <1>2, <1>3, ProceedAge DEF Clear, AgeInv, SessionAge, AuthAt
<1> QED  BY <1>1, <1>2, <1>3, <1>4, WriteAge

LEMMA StampAge ==
  ASSUME AgeInv, NEW p \in Client, Stamp(p), accounts' \subseteq User
  PROVE  AgeInv'
<1> DEFINE u == auth[p].user
           e == [cache[u] EXCEPT !.timestamp = now]
<1>0. /\ u \in User /\ now \in Nat /\ cache[u] \in Entry /\ cache[u] # None
      /\ ~AuthAt(p, "idle") /\ auth[p] \in Session /\ SessionAge(p)
  BY DEF Stamp, AgeInv, AuthTypeOK, SessionAge, AuthAt
<1>1. e \in Entry /\ e.timestamp = now /\ e.groups = cache[u].groups /\ e # None
  BY <1>0, AuthAssumption DEF Entry, Answer
<1>2. Proceed(p, "store") /\ "store" \in AuthPC /\ UNCHANGED <<now, ipa>>
  BY DEF Stamp, AuthPC
<1>3. cache' = [cache EXCEPT ![u] = e] /\ cache'[u] = e
  BY <1>0 DEF Stamp, AgeInv, AuthTypeOK
<1> HIDE DEF e
<1>4. EntryAge(e)
  <2>1. e.groups # None => e.groups.at \in Nat /\ e.groups.at <= now /\ auth[p].began <= e.groups.at + Patience
    BY <1>0, <1>1 DEF Stamp, AgeInv, EntryAge, SessionAge, Entry, Answer
  <2>2. auth[p].began \in Nat /\ now <= auth[p].began + Patience
    BY <1>0 DEF Session, SessionAge
  <2> QED  BY <1>0, <1>1, <2>1, <2>2, AuthAssumption DEF EntryAge
<1>5. SessionAge(p)'
  BY <1>0, <1>1, <1>2, <1>3, ProceedAge DEF Stamp, SessionAge, AuthAt
<1> QED  BY <1>0, <1>1, <1>2, <1>3, <1>4, <1>5, WriteAge

LEMMA StoreAge ==
  ASSUME AgeInv, NEW p \in Client, Store(p), accounts' \subseteq User
  PROVE  AgeInv'
<1> DEFINE u == auth[p].user
           e == [cache[u] EXCEPT !.groups = auth[p].answer]
<1>0. /\ u \in User /\ now \in Nat /\ cache[u] \in Entry /\ cache[u] # None
      /\ ~AuthAt(p, "idle") /\ auth[p] \in Session /\ SessionAge(p) /\ EntryAge(cache[u])
  BY DEF Store, AgeInv, AuthTypeOK, SessionAge, AuthAt
<1>1. /\ auth[p].answer \in Answer /\ auth[p].answer.at \in Nat /\ auth[p].began \in Nat
      /\ auth[p].began <= auth[p].answer.at /\ auth[p].answer.at <= now
      /\ now <= auth[p].began + Patience
  BY <1>0 DEF Store, SessionAge, Session, Answer, AuthAt
<1>2. e \in Entry /\ e.timestamp = cache[u].timestamp /\ e.groups = auth[p].answer /\ e # None
  BY <1>0, <1>1, AuthAssumption DEF Entry, Answer
<1>3. Proceed(p, "decide") /\ "decide" \in AuthPC /\ UNCHANGED <<now, ipa>>
  BY DEF Store, AuthPC
<1>4. cache' = [cache EXCEPT ![u] = e] /\ cache'[u] = e
  BY <1>0 DEF Store, AgeInv, AuthTypeOK
<1>5. e.timestamp # None => e.timestamp \in Nat /\ e.timestamp <= now
  BY <1>0, <1>2 DEF EntryAge, Entry
<1> HIDE DEF e
<1>6. now <= e.groups.at + Patience /\ EntryAge(e)
  BY <1>0, <1>1, <1>2, <1>5, AuthAssumption DEF EntryAge
<1>7. auth[p].answer # None /\ auth[p].began < auth[p].answer.at + CacheTimeout + 2 * Patience
  BY <1>1, AuthAssumption DEF Answer
<1>8. SessionAge(p)'
  BY <1>0, <1>1, <1>2, <1>3, <1>4, <1>7, ProceedAge DEF Store, SessionAge, AuthAt
<1> QED  BY <1>0, <1>2, <1>3, <1>4, <1>6, <1>8, WriteAge

(* Every step.                                                             *)
LEMMA AgeStep ==
  ASSUME AgeInv, [Next]_vars
  PROVE  AgeInv'
<1>0. AuthNext /\ (accounts' \subseteq User)
  BY ApiStep DEF AgeInv
<1>1. ASSUME NEW p \in Client, AuthStep(p)
      PROVE  AgeInv'
  BY <1>0, <1>1, LookupAge, CheckAgeAge, ReadCacheAge, CallSucceedsAge, CallFailsAge, ClearAge,
     StampAge, StoreAge, DecideAge DEF AuthStep
<1>2. ASSUME NEW u \in User, ChangeGroups(u)
      PROVE  AgeInv'
  <2>1. AuthTypeOK'
    BY <1>2 DEF ChangeGroups, AgeInv, AuthTypeOK
  <2> QED  BY <1>0, <1>2, <2>1, SessionKept, EntriesKept DEF ChangeGroups, AgeInv
<1>3. CASE Tick
  <2>0. now \in Nat /\ now' = now + 1 /\ UNCHANGED <<ipa, cache, auth>>
    BY <1>3 DEF Tick, AgeInv, AuthTypeOK
  <2>1. AuthTypeOK'
    BY <2>0 DEF AgeInv, AuthTypeOK
  <2>2. ASSUME NEW u \in User, cache[u] # None
        PROVE  EntryAge(cache[u])'
    BY <2>0, <2>2 DEF AgeInv, AuthTypeOK, EntryAge, Entry, Answer
  <2>3. ASSUME NEW p \in Client
        PROVE  SessionAge(p)'
    <3>1. auth[p] \in Session /\ SessionAge(p)
      BY DEF AgeInv, AuthTypeOK
    <3>2. auth[p].began \in Nat /\ (auth[p].answer # None => auth[p].answer.at \in Nat)
      BY <3>1 DEF Session, Answer
    <3>3. ~AuthAt(p, "idle") => now + 1 <= auth[p].began + Patience
      BY <1>3, <2>0, <3>2, AuthAssumption DEF Tick
    <3> QED  BY <2>0, <3>1, <3>2, <3>3 DEF SessionAge, AuthAt
  <2> QED  BY <1>0, <2>0, <2>1, <2>2, <2>3 DEF AgeInv
<1>4. CASE UNCHANGED authVars
  BY <1>0, <1>4, SessionKept, EntriesKept DEF authVars, AgeInv, AuthTypeOK
<1> QED  BY <1>0, <1>1, <1>2, <1>3, <1>4, BeginsAge, EndedAge DEF AuthNext

LEMMA AgeInit == Init => AgeInv
<1> SUFFICES ASSUME Init
             PROVE  AgeInv
  OBVIOUS
<1>1. now = 0 /\ ipa \in [User -> Memberships] /\ auth = [p \in Client |-> NoSession] /\ accounts = User
  BY DEF Init, InitAuth
<1>2. PICK known \in SUBSET {u \in User : ipa[u] # {}} :
        cache = [u \in User |-> IF u \in known
                    THEN [timestamp |-> 0, groups |-> [groups |-> ipa[u], at |-> 0]]
                    ELSE None]
  BY DEF Init, InitAuth
<1>3. ASSUME NEW u \in User
      PROVE  cache[u] \in Entry \cup {None} /\ (cache[u] # None => EntryAge(cache[u]))
  <2>1. [groups |-> ipa[u], at |-> 0] \in Answer
    BY <1>1, AuthAssumption DEF Answer
  <2> QED  BY <1>1, <1>2, <2>1, AuthAssumption DEF Entry, EntryAge
<1>4. AuthTypeOK
  BY <1>1, <1>2, <1>3, NoSessionType DEF AuthTypeOK
<1>5. ASSUME NEW p \in Client
      PROVE  SessionAge(p)
  <2>1. auth[p].pc = "idle"
    BY <1>1, NoSessionType
  <2> QED  BY <2>1 DEF SessionAge, AuthAt
<1> QED  BY <1>1, <1>3, <1>4, <1>5 DEF AgeInv

LEMMA AgeAlways == Spec => []AgeInv
<1>1. AgeInv /\ UNCHANGED vars => AgeInv'
  BY AgeStep
<1> QED  BY AgeInit, AgeStep, PTL DEF Spec

\* A decision rests on what IPA said less than CacheTimeout before the request
\* began, give or take twice the duration of a request, although all threads
\* of the server fill and read the cache without a lock.
THEOREM RolesStayFresh == Spec => []RolesAreFresh
<1>1. AgeInv => RolesAreFresh
  BY DEF AgeInv, SessionAge, RolesAreFresh
<1> QED  BY <1>1, AgeAlways, PTL
=============================================================================
