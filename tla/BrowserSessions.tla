-------------------------- MODULE BrowserSessions --------------------------
(***************************************************************************)
(* Browser sessions of the control plane: the stores that keep a           *)
(* Kubernetes credential behind an opaque cookie (memory and PostgreSQL    *)
(* with a keyring), the requests that resolve a cookie and review its      *)
(* credential, logout, expiry, and restarts under another keyring.         *)
(* One action is one store operation or one TokenReview.                   *)
(***************************************************************************)
EXTENDS Integers, FiniteSets

CONSTANTS Cookies,       \* session identifiers, each drawn at most once
          KeyIDs,        \* session keys an installation may configure
          SessionCalls,  \* concurrent authenticated requests
          MaxSessions,   \* maxActiveSessions
          TTL,           \* absolute lifetime of a session, in ticks
          MaxClock       \* bound on time

ASSUME SessionsAssumption == MaxSessions \in Nat /\ TTL \in Nat /\ MaxClock \in Nat

VARIABLES persistent,  \* TRUE: PostgreSQL; FALSE: the memory store
          clock,
          keyring,     \* [active, keys] of the running process
          serving,     \* the process started
          rows,        \* the stored sessions: cookie |-> [key, expires]
          spent,       \* cookies drawn so far, with the key they name
          revoked,     \* the cookies whose credential Kubernetes rejects
          scalls,      \* authenticated requests in progress
          creating,    \* a credential reviewed and not stored yet
          loggedOut    \* cookies whose deletion was answered as committed

sessionVars == <<persistent, clock, keyring, serving, rows, spent, revoked, scalls, creating, loggedOut>>

Keyrings == [active : KeyIDs, keys : SUBSET KeyIDs]
Loadable == {k \in Keyrings : k.active \in k.keys}
NoCall == [step |-> "idle"]
Live(r) == {c \in DOMAIN r : clock < r[c].expires}
Keep(r, s) == [c \in s |-> r[c]]

SessionsInit ==
    /\ persistent \in BOOLEAN
    /\ clock = 0
    /\ keyring \in Loadable
    /\ serving = TRUE
    /\ rows = [c \in {} |-> 0]
    /\ spent = [c \in {} |-> 0]
    /\ revoked = {}
    /\ scalls = [r \in SessionCalls |-> NoCall]
    /\ creating = 0
    /\ loggedOut = {}

(* ---- creation --------------------------------------------------------- *)

\* CreateSession: the bearer credential is reviewed first.
ReviewBearer ==
    /\ serving /\ creating < 2 /\ creating' = creating + 1
    /\ UNCHANGED <<persistent, clock, keyring, serving, rows, spent, revoked, scalls, loggedOut>>

\* Mutant: one session too many.
HasCapacity_WithExpired == Cardinality(DOMAIN rows) <= MaxSessions

\* Expired sessions are purged before the live ones are counted.
HasCapacity == Cardinality(Live(rows)) < MaxSessions

\* Create: one transaction under the advisory lock, one section under the mutex.
StoreSession(c) ==
    /\ serving /\ creating > 0 /\ creating' = creating - 1
    /\ c \notin DOMAIN spent
    /\ IF HasCapacity
       THEN /\ rows' = [x \in Live(rows) \cup {c} |->
                          IF x = c THEN [key |-> keyring.active, expires |-> clock + TTL] ELSE rows[x]]
            /\ spent' = [x \in DOMAIN spent \cup {c} |-> IF x = c THEN keyring.active ELSE spent[x]]
       ELSE UNCHANGED spent /\ rows' = IF persistent THEN rows ELSE Keep(rows, Live(rows))
    /\ UNCHANGED <<persistent, clock, keyring, serving, revoked, scalls, loggedOut>>

(* ---- authenticated requests ------------------------------------------- *)

\* parseCookie: a persistent cookie names its key, which must be loaded.
Parses(c) == persistent => spent[c] \in keyring.keys

\* now is not before the expiry.
Expired(c) == clock >= rows[c].expires

\* Resolve: an expired session is purged; anything else yields the credential.
ResolveCookie(r, c) ==
    /\ serving /\ scalls[r].step = "idle" /\ c \in DOMAIN spent /\ Parses(c) /\ c \in DOMAIN rows
    /\ IF Expired(c)
       THEN rows' = Keep(rows, DOMAIN rows \ {c}) /\ UNCHANGED scalls
       ELSE scalls' = [scalls EXCEPT ![r] = [step |-> "review", cookie |-> c]] /\ UNCHANGED rows
    /\ UNCHANGED <<persistent, clock, keyring, serving, spent, revoked, creating, loggedOut>>

\* TokenReview: a rejected credential leads to the session's deletion; an
\* unavailable review decides nothing.
ReviewCall(r) ==
    /\ scalls[r].step = "review"
    /\ \/ /\ scalls[r].cookie \in revoked
          /\ scalls' = [scalls EXCEPT ![r].step = "drop"]
       \/ scalls' = [scalls EXCEPT ![r] = NoCall]
    /\ UNCHANGED <<persistent, clock, keyring, serving, rows, spent, revoked, creating, loggedOut>>

Erased(c) == Keep(rows, DOMAIN rows \ {c})

\* Delete: the row goes; a cookie whose key is not loaded identifies no row.
Deleted(c) == IF Parses(c) THEN Erased(c) ELSE rows

\* The session of a rejected credential is deleted; the store may fail.
DropSession(r) ==
    /\ scalls[r].step = "drop"
    /\ scalls' = [scalls EXCEPT ![r] = NoCall]
    /\ rows' \in {rows, Deleted(scalls[r].cookie)}
    /\ UNCHANGED <<persistent, clock, keyring, serving, spent, revoked, creating, loggedOut>>

\* DeleteSession: a failing store answers an error, whether or not it
\* committed; success is answered for any cookie.
Logout(c) ==
    /\ serving /\ c \in DOMAIN spent
    /\ \/ rows' = Deleted(c) /\ loggedOut' = loggedOut \cup {c}
       \/ rows' = Deleted(c) /\ UNCHANGED loggedOut
    /\ UNCHANGED <<persistent, clock, keyring, serving, spent, revoked, scalls, creating>>

(* ---- the environment -------------------------------------------------- *)

Tick ==
    /\ clock < MaxClock /\ clock' = clock + 1
    /\ UNCHANGED <<persistent, keyring, serving, rows, spent, revoked, scalls, creating, loggedOut>>

\* Kubernetes stops accepting a credential.
RevokeCredential(c) ==
    /\ c \in DOMAIN spent /\ revoked' = revoked \cup {c}
    /\ UNCHANGED <<persistent, clock, keyring, serving, rows, spent, scalls, creating, loggedOut>>

\* NewPostgresSessionStore: every unexpired session's key must be configured.
StartupAccepts(k, live) == \A c \in live : rows[c].key \in k.keys

\* The process stops and starts under some keyring. A memory store loses its
\* sessions; a persistent one purges the expired and may refuse to start,
\* in which case its transaction is rolled back.
RestartSessions(k) ==
    /\ keyring' = k
    /\ scalls' = [r \in SessionCalls |-> NoCall] /\ creating' = 0
    /\ IF ~persistent THEN rows' = [c \in {} |-> 0] /\ serving' = TRUE
       ELSE IF StartupAccepts(k, Live(rows)) THEN rows' = Keep(rows, Live(rows)) /\ serving' = TRUE
       ELSE UNCHANGED rows /\ serving' = FALSE
    /\ UNCHANGED <<persistent, clock, spent, revoked, loggedOut>>

SessionsNext ==
    \/ ReviewBearer \/ Tick
    \/ \E c \in Cookies : StoreSession(c) \/ Logout(c) \/ RevokeCredential(c)
    \/ \E r \in SessionCalls : ReviewCall(r) \/ DropSession(r) \/ \E c \in Cookies : ResolveCookie(r, c)
    \/ \E k \in Loadable : RestartSessions(k)

SessionsSpec == SessionsInit /\ [][SessionsNext]_sessionVars

(* ---- properties ------------------------------------------------------- *)

\* Types of the session store, the keyring and the requests.
SessionsTypeOK ==
    /\ persistent \in BOOLEAN /\ serving \in BOOLEAN /\ clock \in 0 .. MaxClock
    /\ keyring \in Loadable /\ creating \in 0 .. 2
    /\ DOMAIN rows \subseteq DOMAIN spent /\ DOMAIN spent \subseteq Cookies
    /\ \A c \in DOMAIN rows : rows[c].key \in KeyIDs /\ rows[c].expires \in 0 .. MaxClock + TTL

\* No more than the configured number of sessions is live, however many
\* creations run together (Create counts and inserts under one lock).
SessionsBounded == Cardinality(Live(rows)) <= MaxSessions

\* A running process can read every session it may still be asked for: a
\* keyring that lost a key in use does not start (NewPostgresSessionStore).
SessionsReadable == serving /\ persistent => \A c \in Live(rows) : rows[c].key \in keyring.keys

\* After a logout was answered as committed, and after its expiry, a cookie
\* never yields its credential again, under any later keyring
\* (SessionStore.Delete, Resolve).
LogoutIsFinalStep ==
    \A r \in SessionCalls : scalls[r].step = "idle" /\ scalls'[r].step = "review" =>
        /\ scalls'[r].cookie \notin loggedOut
        /\ clock < rows[scalls'[r].cookie].expires
LogoutIsFinal == [][LogoutIsFinalStep]_sessionVars

\* The session store: its states, and the finality of a logout (SessionStore).
SessionCorrect == [](SessionsTypeOK /\ SessionsBounded /\ SessionsReadable) /\ LogoutIsFinal
=============================================================================
