-------------------------------- MODULE Auth --------------------------------
(***************************************************************************)
(* Kerberos authentication of the API: the user behind a token, the groups *)
(* IPA knows of the user, and the cache of those groups all threads of the *)
(* server share without a lock.  Every access to the cache is a step.      *)
(***************************************************************************)
EXTENDS Threads, Naturals

CONSTANTS
    User,
    Group,
    Memberships,   \* the sets of groups a user may be in
    Writers,       \* the option API_READ_WRITE_ROLES
    CacheTimeout,  \* the option IPA_CACHE_TIMEOUT
    MaxRetry,      \* the option CONN_MAX_RETRY
    Patience,      \* bound: the clock's ticks a request can last
    MaxTime        \* bound: the clock

ASSUME AuthAssumption ==
    /\ Writers \subseteq Group
    /\ Memberships \subseteq SUBSET Group
    /\ None \notin User
    /\ None \notin Nat
    /\ None \notin [groups : SUBSET Group, at : Nat]
    /\ None \notin [timestamp : Nat \cup {None},
                    groups : [groups : SUBSET Group, at : Nat] \cup {None}]
    /\ CacheTimeout \in Nat \ {0}
    /\ MaxRetry \in Nat \ {0}
    /\ Patience \in Nat
    /\ MaxTime \in Nat

VARIABLES
    now,    \* time.time()
    ipa,    \* the groups of each user, on the IPA server
    cache,  \* user_role_map_cache
    auth    \* the request of each thread, as far as the authentication goes

authVars == <<now, ipa, cache, auth>>

\* What IPA said of a user, and (not in the code) when.
Answer == [groups : SUBSET Group, at : Nat]

\* An entry of the cache: a dictionary with up to two keys.
Entry == [timestamp : Nat \cup {None}, groups : Answer \cup {None}]

EmptyEntry == [timestamp |-> None, groups |-> None]

\* The calls return_user_roles makes, each of them repeated on errors.
Remote == {"kinit", "connect", "show"}

AuthPC == {"idle", "lookup", "age", "read", "clear", "stamp", "store",
           "decide", "granted"} \cup Remote

\* "names": whose name the object that asks IPA may hold.  All threads share
\* the attribute self.ipa.
Session == [pc : AuthPC, user : User \cup {None}, began : Nat,
            tries : 0..(MaxRetry - 1), names : SUBSET User,
            answer : Answer \cup {None}]

NoSession == [pc |-> "idle", user |-> None, began |-> 0, tries |-> 0, names |-> {}, answer |-> None]

\* A request that begins: u is whom the token or the password is of.
NewSession(u, l) == [pc |-> l, user |-> u, began |-> now, tries |-> 0, names |-> {}, answer |-> None]

\* The server has been running: it may have asked IPA just now.
InitAuth ==
    /\ now = 0
    /\ ipa \in [User -> Memberships]
    /\ \E known \in SUBSET {u \in User : ipa[u] # {}} :
          cache = [u \in User |-> IF u \in known
                      THEN [timestamp |-> 0, groups |-> [groups |-> ipa[u], at |-> 0]]
                      ELSE None]
    /\ auth = [p \in Client |-> NoSession]

-----------------------------------------------------------------------------
AuthAt(p, l) == auth[p].pc = l

Proceed(p, l) == auth' = [auth EXCEPT ![p].pc = l]

\* The request is over: answered, or refused with 401, 403 or 500.
Leave(p) == auth' = [auth EXCEPT ![p] = NoSession]

Asking == {p \in Client : auth[p].pc \in Remote}

\* _start_authorization and set_username: p and the threads that are asking may
\* get each other's object, and each other's name into their own.
Ask(p) ==
    auth' = [q \in Client |->
        IF q = p THEN [auth[p] EXCEPT !.pc = "kinit", !.names = {auth[a].user : a \in Asking \cup {p}}]
        ELSE IF q \in Asking THEN [auth[q] EXCEPT !.names = @ \cup {auth[p].user}] ELSE auth[q]]

\* verify_user: without a valid token there is no user, and no request.
Authenticate(p, u) ==
    /\ AuthAt(p, "idle")
    /\ auth' = [auth EXCEPT ![p] = NewSession(u, "lookup")]
    /\ UNCHANGED <<now, ipa, cache>>

\* "username not in self.user_role_map_cache"
Lookup(p) ==
    /\ AuthAt(p, "lookup")
    /\ IF cache[auth[p].user] = None THEN Ask(p) ELSE Proceed(p, "age")
    /\ UNCHANGED <<now, ipa, cache>>

\* The time stamp of the entry.  An entry another thread has just emptied has
\* none: KeyError, and the request ends with 500.
CheckAge(p) ==
    LET stamp == cache[auth[p].user].timestamp IN
    /\ AuthAt(p, "age")
    /\ IF stamp = None THEN Leave(p)
       ELSE IF now - stamp < CacheTimeout THEN Proceed(p, "read") ELSE Ask(p)
    /\ UNCHANGED <<now, ipa, cache>>

\* The groups of the entry, which may be another one by now.
ReadCache(p) ==
    LET found == cache[auth[p].user].groups IN
    /\ AuthAt(p, "read")
    /\ IF found = None THEN Leave(p)
       ELSE auth' = [auth EXCEPT ![p].pc = "decide", ![p].answer = found]
    /\ UNCHANGED <<now, ipa, cache>>

After(l) == IF l = "kinit" THEN "connect" ELSE "show"

\* retry_on_error: the call succeeds (user_show names no groups of a user who
\* is in none, which is a KeyError) ...
CallSucceeds(p) ==
    /\ auth[p].pc \in Remote
    /\ IF AuthAt(p, "show")
       THEN \E u \in auth[p].names :
              /\ ipa[u] # {}
              /\ auth' = [auth EXCEPT ![p] =
                   [@ EXCEPT !.pc = "clear", !.tries = 0, !.names = {},
                             !.answer = [groups |-> ipa[u], at |-> now]]]
       ELSE auth' = [auth EXCEPT ![p] = [@ EXCEPT !.pc = After(auth[p].pc), !.tries = 0]]
    /\ UNCHANGED <<now, ipa, cache>>

CallFails_OneMore(p) ==
    /\ auth[p].pc \in Remote
    /\ IF auth[p].tries < MaxRetry
       THEN auth' = [auth EXCEPT ![p].tries = @ + 1]
       ELSE Leave(p)
    /\ UNCHANGED <<now, ipa, cache>>

\* ... or fails with an error worth another try, ...
CallFails(p) ==
    /\ auth[p].pc \in Remote
    /\ IF auth[p].tries + 1 < MaxRetry
       THEN auth' = [auth EXCEPT ![p].tries = @ + 1]
       ELSE Leave(p)
    /\ UNCHANGED <<now, ipa, cache>>

\* ... or with any other exception: 500.
CallRaises(p) ==
    /\ auth[p].pc \in Remote
    /\ Leave(p)
    /\ UNCHANGED <<now, ipa, cache>>

Clear_InPlace(p) ==
    LET u == auth[p].user IN
    /\ AuthAt(p, "clear")
    /\ cache' = [cache EXCEPT ![u] = IF @ = None THEN EmptyEntry ELSE @]
    /\ Proceed(p, "stamp")
    /\ UNCHANGED <<now, ipa>>

\* update_authorization_cache: the entry becomes an empty dictionary, ...
Clear(p) ==
    /\ AuthAt(p, "clear")
    /\ cache' = [cache EXCEPT ![auth[p].user] = EmptyEntry]
    /\ Proceed(p, "stamp")
    /\ UNCHANGED <<now, ipa>>

\* ... gets its time stamp, ...
Stamp(p) ==
    /\ AuthAt(p, "stamp")
    /\ cache' = [cache EXCEPT ![auth[p].user].timestamp = now]
    /\ Proceed(p, "store")
    /\ UNCHANGED <<now, ipa>>

\* ... and the groups.  Two threads may fill the same dictionary.
Store(p) ==
    /\ AuthAt(p, "store")
    /\ cache' = [cache EXCEPT ![auth[p].user].groups = auth[p].answer]
    /\ Proceed(p, "decide")
    /\ UNCHANGED <<now, ipa>>

\* flask_httpauth compares the groups with the roles of the endpoint.
Decide(p) ==
    /\ AuthAt(p, "decide")
    /\ IF auth[p].answer.groups \cap Writers # {}
       THEN auth' = [auth EXCEPT ![p].pc = "granted", ![p].answer = None]
       ELSE Leave(p)
    /\ UNCHANGED <<now, ipa, cache>>

AuthStep(p) ==
    \/ Lookup(p) \/ CheckAge(p) \/ ReadCache(p)
    \/ CallSucceeds(p) \/ CallFails(p) \/ CallRaises(p)
    \/ Clear(p) \/ Stamp(p) \/ Store(p) \/ Decide(p)

\* An administrator changes the groups of a user.
ChangeGroups(u) ==
    /\ \E g \in Memberships : g # ipa[u] /\ ipa' = [ipa EXCEPT ![u] = g]
    /\ UNCHANGED <<now, cache, auth>>

\* No request is older than Patience.
Tick ==
    /\ now < MaxTime
    /\ \A p \in Client : ~AuthAt(p, "idle") => now - auth[p].began < Patience
    /\ now' = now + 1
    /\ UNCHANGED <<ipa, cache, auth>>

-----------------------------------------------------------------------------
AuthTypeOK ==
    /\ now \in Nat
    /\ ipa \in [User -> Memberships]
    /\ cache \in [User -> Entry \cup {None}]
    /\ auth \in [Client -> Session]

\* A decision rests on what IPA said at most CacheTimeout before the request,
\* give or take the time the requests that fill the cache may last: also when
\* one thread reads an entry which others are replacing.
RolesAreFresh ==
    \A p \in Client : AuthAt(p, "decide") =>
        auth[p].began < auth[p].answer.at + CacheTimeout + 2 * Patience
=============================================================================
