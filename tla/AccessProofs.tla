---------------------------- MODULE AccessProofs ----------------------------
(***************************************************************************)
(* Who gets in.                                                            *)
(*                                                                         *)
(* For any number of users, workspaces, sessions, tokens and requests, and *)
(* any number of changes, crashes and failed writes: a completed change of *)
(* a password ends the sessions opened before it, a reset token sets one   *)
(* password, and a session whose revocation was answered stays revoked.    *)
(*                                                                         *)
(* However long a window is and whatever it allows, the three limiters let *)
(* no stretch of a window's length have more than two windows allow, less  *)
(* the first moment of the first one, and lock nobody out without cause.   *)
(* A stretch of a window's length meets at most one start of a window.  So *)
(* it is enough to know, of the window that counts now, that its uses are  *)
(* those from its start on, and that the uses in the same length of time   *)
(* before its start leave out the first moment of the window before it.    *)
(***************************************************************************)
EXTENDS AuthSessions, Throttles, FiniteSetTheorems, WellFoundedInduction, TLAPS

(***************************************************************************)
(* Sessions, credentials and memberships.  What holds of the memory holds  *)
(* of the file as well: it is the memory as it was at some earlier write,  *)
(* and what was promised since was promised after a write.                 *)
(***************************************************************************)

\* Versions are given out in order, so that no sweep is later than the user's version.
VersionsOrdered(accounts, given, sweeps) ==
  \A u \in User :
    /\ accounts[u].version <= given
    /\ \A w \in Workspace : sweeps[u][w] <= accounts[u].version

\* What a session owes to the versions.
Fresh(session, accounts, sweeps) ==
  session # NoSession =>
    /\ session.born <= accounts[session.user].version
    /\ session.state = "LIVE" => session.born >= sweeps[session.user][session.workspace]
AllFresh(f, accounts, sweeps) == \A s \in SessionId : Fresh(f[s], accounts, sweeps)

\* A token that may still be given out or be used has set no password.
OpenUnused(f, spent) ==
  \A t \in TokenId : spent[t] = 0 \/ (f[t] # NoToken /\ f[t].state # "OPEN")

RevokedIn(f, gone) == \A s \in gone : f[s] # NoSession /\ f[s].state = "REVOKED"

\* What the memory and the file must be, given the versions, sweeps, uses and answers so far.
Good(store, given, sweeps, spent, answered) ==
  /\ VersionsOrdered(store.users, given, sweeps)
  /\ AllFresh(store.sessions, store.users, sweeps)
  /\ OpenUnused(store.tokens, spent)
  /\ RevokedIn(store.sessions, answered)

IInv ==
  /\ TypeOK /\ OneResetPerToken
  /\ Good(Memory, changes, swept, resets, ended)
  /\ Good(disk, changes, swept, resets, ended)

\* The memory by its parts.
MemoryParts ==
  /\ Memory.users = users /\ Memory.members = members
  /\ Memory.sessions = sessions /\ Memory.tokens = tokens
  /\ Memory \in Store <=> /\ users \in [User -> Account]
                          /\ members \in [User -> [Workspace -> Membership \union {NoMember}]]
                          /\ sessions \in [SessionId -> Session \union {NoSession}]
                          /\ tokens \in [TokenId -> Token \union {NoToken}]

-----------------------------------------------------------------------------
LEMMA Parts == MemoryParts /\ MemoryParts'
BY DEF MemoryParts, Memory, Store

LEMMA Typed ==
  ASSUME IInv
  PROVE  /\ users \in [User -> Account]
         /\ members \in [User -> [Workspace -> Membership \union {NoMember}]]
         /\ sessions \in [SessionId -> Session \union {NoSession}]
         /\ tokens \in [TokenId -> Token \union {NoToken}]
         /\ disk \in Store
         /\ requests \in [Request -> Waiting \union {Idle}]
         /\ changes \in 0..MaxVersion /\ edits \in 0..MaxEdits /\ faults \in 0..MaxFaults
         /\ swept \in [User -> [Workspace -> 0..MaxVersion]]
         /\ ended \subseteq SessionId /\ resets \in [TokenId -> Nat]
BY Parts DEF IInv, TypeOK, MemoryParts

LEMMA MemoryGood ==
  ASSUME IInv
  PROVE  /\ VersionsOrdered(users, changes, swept)
         /\ AllFresh(sessions, users, swept)
         /\ OpenUnused(tokens, resets)
         /\ RevokedIn(sessions, ended)
BY Parts DEF IInv, Good, MemoryParts

\* Memory and file after a step are what they must be.
LEMMA StepInv ==
  ASSUME Memory' \in Store, disk' \in Store,
         Good(Memory', changes', swept', resets', ended'),
         Good(disk', changes', swept', resets', ended'),
         requests' \in [Request -> Waiting \union {Idle}],
         changes' \in 0..MaxVersion, edits' \in 0..MaxEdits, faults' \in 0..MaxFaults,
         swept' \in [User -> [Workspace -> 0..MaxVersion]],
         ended' \subseteq SessionId, resets' \in [TokenId -> Nat], OneResetPerToken'
  PROVE  IInv'
<1>1. \A s \in SessionId : Exists(s)' => sessions'[s].born <= users'[sessions'[s].user].version
  BY Parts DEF Good, AllFresh, Fresh, Exists, MemoryParts
<1>. QED BY <1>1 DEF IInv, TypeOK

\* A step that promises nothing and changes no credential.
LEMMA QuietStep ==
  ASSUME IInv,
         Memory' \in Store, Good(Memory', changes, swept, resets, ended),
         disk' \in {disk, Memory, Memory'},
         requests' \in [Request -> Waiting \union {Idle}],
         edits' \in 0..MaxEdits, faults' \in 0..MaxFaults,
         UNCHANGED <<changes, swept, ended, resets>>
  PROVE  IInv'
<1>1. disk' \in Store /\ Good(disk', changes, swept, resets, ended)
  BY DEF IInv, TypeOK
<1>2. OneResetPerToken'
  BY DEF IInv, OneResetPerToken
<1>. QED BY <1>1, <1>2, Typed, StepInv

\* One that changes sessions, or tokens, or memberships, and leaves the accounts alone.
LEMMA PartsStep ==
  ASSUME IInv,
         members' \in [User -> [Workspace -> Membership \union {NoMember}]],
         sessions' \in [SessionId -> Session \union {NoSession}],
         tokens' \in [TokenId -> Token \union {NoToken}],
         AllFresh(sessions', users, swept), RevokedIn(sessions', ended),
         OpenUnused(tokens', resets),
         UNCHANGED users
  PROVE  Memory' \in Store /\ Good(Memory', changes, swept, resets, ended)
<1>1. Memory' \in Store
  BY Typed, Parts DEF MemoryParts
<1>2. VersionsOrdered(users', changes, swept) /\ AllFresh(sessions', users', swept)
  BY MemoryGood
<1>. QED BY <1>1, <1>2, Parts DEF Good, MemoryParts

\* Later versions of the accounts do no harm.
LEMMA FreshLater ==
  ASSUME NEW f \in [SessionId -> Session \union {NoSession}],
         NEW old \in [User -> Account], NEW new \in [User -> Account], NEW sweeps,
         \A u \in User : old[u].version <= new[u].version,
         AllFresh(f, old, sweeps)
  PROVE  AllFresh(f, new, sweeps)
<1>. SUFFICES ASSUME NEW s \in SessionId, f[s] # NoSession
              PROVE  Fresh(f[s], new, sweeps)
  BY DEF AllFresh, Fresh
<1>1. f[s] \in Session
  OBVIOUS
<1>2. f[s].user \in User /\ f[s].born \in Nat
  BY <1>1, BoundAssumption DEF Session
<1>3. old[f[s].user].version \in Nat /\ new[f[s].user].version \in Nat
  BY <1>2, BoundAssumption DEF Account
<1>4. Fresh(f[s], old, sweeps)
  BY DEF AllFresh
<1>. QED BY <1>2, <1>3, <1>4 DEF Fresh

\* Nor does it that more versions were given out.
LEMMA GoodLater ==
  ASSUME NEW store \in Store, NEW c \in Nat, NEW d \in Nat, c <= d,
         NEW sweeps, NEW spent, NEW answered,
         Good(store, c, sweeps, spent, answered)
  PROVE  Good(store, d, sweeps, spent, answered)
<1>1. \A u \in User : store.users[u].version \in Nat
  BY BoundAssumption DEF Store, Account
<1>. QED BY <1>1 DEF Good, VersionsOrdered

\* A session that is opened now, and one whose state changes but not to LIVE.
LEMMA NewSessionFacts ==
  ASSUME IInv, NEW u \in User, NEW w \in Workspace
  PROVE  /\ NewSession(u, w) \in Session
         /\ Fresh(NewSession(u, w), users, swept)
<1>1. users[u].version \in 0..MaxVersion /\ swept[u][w] \in 0..MaxVersion
  BY Typed DEF Account
<1>2. swept[u][w] <= users[u].version
  BY MemoryGood DEF VersionsOrdered
<1>. QED BY <1>1, <1>2, BoundAssumption DEF NewSession, Session, Fresh

LEMMA EndedFacts ==
  ASSUME NEW session \in Session, NEW state \in {"REVOKED", "EXPIRED"}, NEW accounts, NEW sweeps,
         Fresh(session, accounts, sweeps)
  PROVE  /\ [session EXCEPT !.state = state] \in Session
         /\ [session EXCEPT !.state = state].state = state
         /\ Fresh([session EXCEPT !.state = state], accounts, sweeps)
BY SentinelAssumption DEF Session, Fresh

LEMMA RevokedFacts ==
  ASSUME IInv, NEW gone, \A s \in gone : s \in SessionId /\ Exists(s)
  PROVE  /\ Revoked(gone) \in [SessionId -> Session \union {NoSession}]
         /\ AllFresh(Revoked(gone), users, swept)
         /\ RevokedIn(Revoked(gone), ended \union gone)
<1>1. ASSUME NEW s \in SessionId
      PROVE  /\ Revoked(gone)[s] \in Session \union {NoSession}
             /\ Fresh(Revoked(gone)[s], users, swept)
             /\ s \in gone => Revoked(gone)[s] # NoSession /\ Revoked(gone)[s].state = "REVOKED"
             /\ s \notin gone => Revoked(gone)[s] = sessions[s]
  <2>1. sessions[s] \in Session \union {NoSession} /\ Fresh(sessions[s], users, swept)
    BY Typed, MemoryGood DEF AllFresh
  <2>2. CASE s \in gone
    <3>1. sessions[s] \in Session
      BY <2>1, <2>2 DEF Exists
    <3>. QED BY <2>1, <2>2, <3>1, EndedFacts, SentinelAssumption DEF Revoked
  <2>3. CASE s \notin gone
    BY <2>1, <2>3 DEF Revoked
  <2>. QED BY <2>2, <2>3
<1>2. Revoked(gone) \in [SessionId -> Session \union {NoSession}]
  BY <1>1 DEF Revoked
<1>3. RevokedIn(Revoked(gone), ended \union gone)
  BY <1>1, Typed, MemoryGood DEF RevokedIn
<1>. QED BY <1>1, <1>2, <1>3 DEF AllFresh

-----------------------------------------------------------------------------
LEMMA InitInv == Init => IInv
<1>. SUFFICES ASSUME Init PROVE IInv
  OBVIOUS
<1>1. Memory \in Store
  BY MemberAssumption, BoundAssumption, Parts DEF Init, MemoryParts, Account
<1>2. VersionsOrdered(users, changes, swept)
  BY DEF Init, VersionsOrdered
<1>3. Good(Memory, changes, swept, resets, ended)
  BY <1>2, Parts DEF Init, Good, MemoryParts, AllFresh, Fresh, OpenUnused, RevokedIn
<1>4. TypeOK
  BY <1>1, BoundAssumption DEF Init, TypeOK, Exists
<1>. QED BY <1>3, <1>4 DEF Init, IInv, OneResetPerToken

LEMMA LeaveFacts ==
  ASSUME IInv, NEW r, Leave(r)
  PROVE  requests' \in [Request -> Waiting \union {Idle}]
BY Typed DEF Leave, Without

LEMMA WrittenFacts ==
  ASSUME IInv, NEW before, Written \/ Unwritten(before)
  PROVE  disk' \in {before, Memory'} /\ faults' \in 0..MaxFaults
BY Typed, BoundAssumption DEF Written, Unwritten, Fault

LEMMA ConsumedFacts ==
  ASSUME IInv, NEW t \in TokenId, Consumable(t)
  PROVE  /\ Consumed(t) \in [TokenId -> Token \union {NoToken}]
         /\ Consumed(t)[t] # NoToken /\ Consumed(t)[t].state = "USED"
         /\ \A x \in TokenId : x # t => Consumed(t)[x] = tokens[x]
         /\ resets[t] = 0
<1>1. tokens[t] \in Token
  BY Typed DEF Consumable
<1>. DEFINE token == [tokens[t] EXCEPT !.state = "USED"]
<1>2. token \in Token /\ token.state = "USED" /\ token # NoToken
  BY <1>1, SentinelAssumption DEF Token
<1>4. Consumed(t) = [tokens EXCEPT ![t] = token]
  BY Typed DEF Consumed
<1>3. resets[t] = 0
  BY MemoryGood DEF OpenUnused, Consumable
<1>. HIDE DEF token
<1>. QED BY <1>2, <1>3, <1>4, Typed

\* What the file may hold after a change of a credential.
LEMMA CutShortFacts ==
  ASSUME IInv, NEW u \in User, NEW w \in Workspace, NEW gone, NEW r, NEW before,
         SetCredential(u, w, gone, r, before)
  PROVE  \/ disk' = Memory'
         \/ disk' = before /\ UNCHANGED <<swept, ended>>
         \/ /\ UNCHANGED <<swept, ended>>
            /\ \E s \in gone : disk' = [Memory' EXCEPT !.sessions = Revoked(gone \ {s})]
BY DEF SetCredential, Written, FileCutShort

\* A new credential, whatever the sessions that were revoked before the end.
LEMMA SetCredentialInv ==
  ASSUME IInv, NEW u \in User, NEW w \in Workspace, NEW gone, NEW r, NEW before,
         SetCredential(u, w, gone, r, before),
         before \in Store, Good(before, changes, swept, resets', ended),
         tokens' \in [TokenId -> Token \union {NoToken}],
         resets' \in [TokenId -> Nat], OneResetPerToken', OpenUnused(tokens', resets'),
         UNCHANGED <<members, edits>>
  PROVE  IInv'
<1>1. users[u] \in Account /\ changes \in Nat
  BY Typed, BoundAssumption
<1>2. /\ changes' = changes + 1 /\ changes' \in 0..MaxVersion
      /\ users' = [users EXCEPT ![u] = [users[u] EXCEPT !.credential = TRUE, !.version = changes + 1]]
  BY Typed, BoundAssumption DEF SetCredential, Changed
<1>3. users' \in [User -> Account] /\ users'[u].version = changes + 1
      /\ \A x \in User : x # u => users'[x] = users[x]
  BY Typed, <1>1, <1>2 DEF Account
<1>4. gone \subseteq LiveIn(u, w) /\ sessions' = Revoked(gone)
  BY DEF SetCredential
<1>5. \A s \in gone : s \in SessionId /\ Exists(s)
  BY <1>4 DEF LiveIn, Live
<1>6. \/ /\ gone = LiveIn(u, w) /\ disk' = Memory'
         /\ swept' = [swept EXCEPT ![u][w] = changes + 1]
         /\ ended' = ended \union gone
      \/ swept' = swept /\ ended' = ended
  BY DEF SetCredential, Written
<1>7. \A x \in User : /\ users[x].version \in Nat /\ users'[x].version \in Nat
                      /\ users[x].version <= users'[x].version
                      /\ users'[x].version <= changes'
  BY Typed, <1>1, <1>2, <1>3, MemoryGood, BoundAssumption DEF VersionsOrdered, Account
<1>8. swept' \in [User -> [Workspace -> 0..MaxVersion]]
  <2>1. [swept[u] EXCEPT ![w] = changes + 1] \in [Workspace -> 0..MaxVersion]
    BY Typed, <1>2
  <2>. QED BY <2>1, Typed, <1>6
<1>9. VersionsOrdered(users', changes', swept)
  <2>. SUFFICES ASSUME NEW x \in User, NEW y \in Workspace
                PROVE  swept[x][y] <= users'[x].version
    BY <1>7 DEF VersionsOrdered
  <2>1. swept[x][y] <= users[x].version /\ swept[x][y] \in Nat
    BY Typed, MemoryGood, BoundAssumption DEF VersionsOrdered
  <2>. QED BY <2>1, <1>7
<1>10. VersionsOrdered(users', changes', swept')
  <2>. SUFFICES ASSUME NEW x \in User, NEW y \in Workspace
                PROVE  swept'[x][y] <= users'[x].version
    BY <1>7 DEF VersionsOrdered
  <2>1. CASE swept'[x][y] = swept[x][y]
    BY <2>1, <1>9 DEF VersionsOrdered
  <2>2. CASE x = u /\ swept'[x][y] = changes + 1
    BY <2>2, <1>3, <1>1
  <2>. QED BY <2>1, <2>2, <1>6, Typed
<1>11. ASSUME NEW some \in SUBSET gone
       PROVE  /\ Revoked(some) \in [SessionId -> Session \union {NoSession}]
              /\ AllFresh(Revoked(some), users', swept)
              /\ RevokedIn(Revoked(some), ended \union some)
  BY <1>3, <1>5, <1>7, Typed, RevokedFacts, FreshLater
<1>12. sessions' \in [SessionId -> Session \union {NoSession}]
       /\ AllFresh(sessions', users', swept) /\ RevokedIn(sessions', ended')
  BY <1>4, <1>6, <1>11 DEF RevokedIn
<1>13. ASSUME NEW s \in SessionId
       PROVE  Fresh(sessions'[s], users', swept')
  <2>. SUFFICES ASSUME sessions'[s] # NoSession, sessions'[s].state = "LIVE"
                PROVE  sessions'[s].born >= swept'[sessions'[s].user][sessions'[s].workspace]
    BY <1>12 DEF AllFresh, Fresh
  <2>1. sessions'[s] \in Session
    BY <1>12
  <2>. DEFINE x == sessions'[s].user
              y == sessions'[s].workspace
  <2>2. x \in User /\ y \in Workspace /\ sessions'[s].born \in 0..MaxVersion
    BY <2>1 DEF Session
  <2>3. sessions'[s].born >= swept[x][y]
    BY <1>12 DEF AllFresh, Fresh
  <2>4. CASE swept'[x][y] = swept[x][y]
    BY <2>3, <2>4
  <2>5. CASE x = u /\ y = w /\ gone = LiveIn(u, w)
    <3>1. s \notin gone
      BY <1>4, <1>11 DEF RevokedIn
    <3>2. s \in LiveIn(u, w)
      BY <3>1, <1>4, <2>5 DEF Revoked, LiveIn, Live, Exists
    <3>. QED BY <3>1, <3>2, <2>5
  <2>. QED BY <2>2, <2>4, <2>5, <1>6, Typed
<1>14. Memory' \in Store /\ Good(Memory', changes', swept', resets', ended')
  <2>1. Memory' \in Store
    BY <1>3, <1>12, Typed, Parts DEF MemoryParts
  <2>. QED BY <2>1, <1>10, <1>12, <1>13, Parts DEF Good, AllFresh, MemoryParts
<1>15. disk' \in Store /\ Good(disk', changes', swept', resets', ended')
  <2>1. CASE disk' = Memory'
    BY <2>1, <1>14
  <2>2. CASE disk' = before /\ UNCHANGED <<swept, ended>>
    BY <2>2, <1>1, <1>2, GoodLater
  <2>3. CASE /\ UNCHANGED <<swept, ended>>
             /\ \E s \in gone : disk' = [Memory' EXCEPT !.sessions = Revoked(gone \ {s})]
    <3>1. PICK some \in SUBSET gone : disk' = [Memory' EXCEPT !.sessions = Revoked(some)]
      BY <2>3
    <3>2. /\ disk' \in Store /\ disk'.users = users' /\ disk'.tokens = tokens'
          /\ disk'.sessions = Revoked(some)
      BY <3>1, <1>11, <1>14, Parts DEF Store, MemoryParts
    <3>3. RevokedIn(Revoked(some), ended)
      BY <1>11 DEF RevokedIn
    <3>. QED BY <3>2, <3>3, <2>3, <1>9, <1>11 DEF Good
  <2>. QED BY <2>1, <2>2, <2>3, CutShortFacts
<1>16. requests' \in [Request -> Waiting \union {Idle}] /\ faults' \in 0..MaxFaults
  BY Typed, LeaveFacts, BoundAssumption DEF SetCredential, Written, Fault
<1>17. ended' \subseteq SessionId
  BY <1>5, <1>6, Typed
<1>. QED BY <1>2, <1>8, <1>14, <1>15, <1>16, <1>17, Typed, StepInv

-----------------------------------------------------------------------------
\* One session is opened.
LEMMA OpenInv ==
  ASSUME IInv, NEW u \in User, NEW w \in Workspace, NEW s \in SessionId, ~Exists(s),
         sessions' = [sessions EXCEPT ![s] = NewSession(u, w)],
         requests' \in [Request -> Waiting \union {Idle}], Written,
         UNCHANGED <<users, members, tokens, counters, history>>
  PROVE  IInv'
<1>1. sessions' \in [SessionId -> Session \union {NoSession}]
  BY Typed, NewSessionFacts
<1>2. AllFresh(sessions', users, swept)
  BY Typed, NewSessionFacts, MemoryGood DEF AllFresh
<1>3. RevokedIn(sessions', ended)
  <2>1. s \notin ended
    BY MemoryGood DEF RevokedIn, Exists
  <2>. QED BY <2>1, Typed, MemoryGood DEF RevokedIn
<1>4. Memory' \in Store /\ Good(Memory', changes, swept, resets, ended)
  BY <1>1, <1>2, <1>3, Typed, MemoryGood, PartsStep
<1>. QED BY <1>4, Typed, QuietStep DEF Written, counters, history

\* A session is revoked; only if that is saved it is promised.
LEMMA RevokeInv ==
  ASSUME IInv, NEW s \in SessionId, Exists(s), Revoke(s)
  PROVE  IInv'
<1>1. /\ sessions' = Revoked({s})
      /\ UNCHANGED <<users, members, tokens, requests, changes, edits, swept, resets>>
  BY DEF Revoke, counters
<1>2. /\ sessions' \in [SessionId -> Session \union {NoSession}]
      /\ AllFresh(sessions', users, swept)
      /\ RevokedIn(sessions', ended \union {s})
  BY <1>1, RevokedFacts
<1>3. CASE Written /\ ended' = ended \union {s}
  <2>1. Memory' \in Store
    BY <1>1, <1>2, Typed, Parts DEF MemoryParts
  <2>2. Good(Memory', changes', swept', resets', ended')
    BY <1>1, <1>2, <1>3, MemoryGood, Parts DEF Good, MemoryParts
  <2>3. OneResetPerToken'
    BY <1>1 DEF IInv, OneResetPerToken
  <2>. QED BY <1>1, <1>3, <2>1, <2>2, <2>3, Typed, StepInv DEF Written
<1>4. CASE (Unwritten(Sighted) \/ Unwritten(Memory')) /\ UNCHANGED ended
  <2>1. RevokedIn(sessions', ended)
    BY <1>2 DEF RevokedIn
  <2>2. Memory' \in Store /\ Good(Memory', changes, swept, resets, ended)
    BY <1>1, <1>2, <2>1, Typed, MemoryGood, PartsStep
  <2>3. disk' \in {Memory, Memory'} /\ faults' \in 0..MaxFaults
    BY <1>4, Typed, BoundAssumption DEF Unwritten, Sighted, Fault
  <2>. QED BY <1>1, <1>4, <2>2, <2>3, Typed, QuietStep
<1>. QED BY <1>3, <1>4 DEF Revoke

LEMMA RequestResetInv ==
  ASSUME IInv, NEW u \in User, NEW w \in Workspace, NEW t \in TokenId, RequestReset(u, w, t)
  PROVE  IInv'
<1>. DEFINE new == [user |-> u, workspace |-> w, state |-> "OPEN"]
<1>1. new \in Token
  BY DEF Token
<1>2. tokens' = [tokens EXCEPT ![t] = new] /\ resets[t] = 0
  BY MemoryGood DEF RequestReset, OpenUnused
<1>. HIDE DEF new
<1>3. tokens' \in [TokenId -> Token \union {NoToken}] /\ OpenUnused(tokens', resets)
  BY <1>1, <1>2, Typed, MemoryGood DEF OpenUnused
<1>4. UNCHANGED <<users, members, sessions, requests, changes, edits, faults, swept, ended, resets>>
      /\ disk' = Memory'
  BY DEF RequestReset, Written, counters, history
<1>5. Memory' \in Store /\ Good(Memory', changes, swept, resets, ended)
  BY <1>3, <1>4, Typed, MemoryGood, PartsStep
<1>. QED BY <1>4, <1>5, Typed, QuietStep

\* The memory with a token used up, whatever the token sets.
LEMMA UsedStore ==
  ASSUME IInv, NEW t \in TokenId, Consumable(t), NEW n \in {0, 1}
  PROVE  LET used == [Memory EXCEPT !.tokens = Consumed(t)]
             spent == [resets EXCEPT ![t] = @ + n]
         IN  /\ used \in Store /\ Good(used, changes, swept, spent, ended)
             /\ spent \in [TokenId -> Nat] /\ OpenUnused(Consumed(t), spent)
             /\ \A x \in TokenId : spent[x] <= 1
<1>. DEFINE used == [Memory EXCEPT !.tokens = Consumed(t)]
            spent == [resets EXCEPT ![t] = @ + n]
<1>1. used \in Store /\ used.users = users /\ used.sessions = sessions /\ used.tokens = Consumed(t)
  BY ConsumedFacts, Parts DEF IInv, TypeOK, Store, MemoryParts
<1>2. spent \in [TokenId -> Nat] /\ \A x \in TokenId : x # t => spent[x] = resets[x]
  BY Typed
<1>3. spent[t] <= 1
  BY ConsumedFacts, Typed
<1>4. OpenUnused(Consumed(t), spent)
  BY <1>2, ConsumedFacts, MemoryGood DEF OpenUnused
<1>5. \A x \in TokenId : spent[x] <= 1
  BY <1>2, <1>3 DEF IInv, OneResetPerToken
<1>. HIDE DEF used, spent
<1>6. Good(used, changes, swept, spent, ended)
  BY <1>1, <1>4, MemoryGood DEF Good
<1>. QED BY <1>1, <1>2, <1>4, <1>5, <1>6 DEF used, spent

LEMMA ConfirmResetInv ==
  ASSUME IInv, NEW t \in TokenId, NEW gone, ConfirmReset(t, gone)
  PROVE  IInv'
<1>1. /\ Consumable(t) /\ tokens' = Consumed(t)
      /\ resets' = [resets EXCEPT ![t] = @ + 1]
      /\ SetCredential(tokens[t].user, tokens[t].workspace, gone, Idle,
                       [Memory EXCEPT !.tokens = Consumed(t)])
      /\ UNCHANGED <<members, edits>>
  BY DEF ConfirmReset
<1>2. tokens[t].user \in User /\ tokens[t].workspace \in Workspace
  BY <1>1, Typed DEF Consumable, Token
<1>3. /\ [Memory EXCEPT !.tokens = Consumed(t)] \in Store
      /\ Good([Memory EXCEPT !.tokens = Consumed(t)], changes, swept, resets', ended)
      /\ resets' \in [TokenId -> Nat] /\ OpenUnused(tokens', resets')
      /\ \A x \in TokenId : resets'[x] <= 1
  BY <1>1, UsedStore
<1>4. tokens' \in [TokenId -> Token \union {NoToken}]
  BY <1>1, ConsumedFacts
<1>. QED BY <1>1, <1>2, <1>3, <1>4, SetCredentialInv DEF OneResetPerToken

LEMMA WasteTokenInv ==
  ASSUME IInv, NEW t \in TokenId, WasteToken(t)
  PROVE  IInv'
<1>1. /\ Consumable(t) /\ tokens' = Consumed(t)
      /\ UNCHANGED <<users, members, sessions, changes, edits, swept, ended, resets>>
  BY DEF WasteToken, counters, history
<1>2. tokens' \in [TokenId -> Token \union {NoToken}] /\ OpenUnused(tokens', resets)
  BY <1>1, ConsumedFacts, MemoryGood DEF OpenUnused
<1>3. Memory' \in Store /\ Good(Memory', changes, swept, resets, ended)
  BY <1>1, <1>2, Typed, MemoryGood, PartsStep
<1>4. disk' \in {disk, Memory'} /\ faults' \in 0..MaxFaults
  BY WrittenFacts DEF WasteToken
<1>5. requests' \in [Request -> Waiting \union {Idle}]
  BY Typed DEF WasteToken
<1>. QED BY <1>1, <1>3, <1>4, <1>5, Typed, QuietStep

\* Nothing changes but what waits, and what is in the file.
LEMMA IdleStep ==
  ASSUME IInv, requests' \in [Request -> Waiting \union {Idle}], disk' \in {disk, Memory},
         UNCHANGED <<users, members, sessions, tokens, counters, faults, history>>
  PROVE  IInv'
<1>1. Memory' \in Store /\ Good(Memory', changes, swept, resets, ended)
  BY Typed, MemoryGood, PartsStep
<1>. QED BY <1>1, Typed, QuietStep DEF counters, history

LEMMA ReceiveInv ==
  ASSUME IInv, NEW r \in Request, NEW s \in SessionId, NEW route \in Route, Receive(r, s, route)
  PROVE  IInv'
<1>. DEFINE new == [route |-> route, principal |-> PrincipalOf(s), session |-> s]
<1>1. sessions[s] \in Session /\ ActiveSubject(sessions[s].user, sessions[s].workspace)
  BY Typed DEF Receive, Authentic, Live, Exists
<1>2. PrincipalOf(s) \in Principal
  BY <1>1, Typed DEF PrincipalOf, ActiveSubject, Principal, Session, Membership
<1>3. new \in Waiting
  BY <1>2 DEF Waiting
<1>4. requests' = [requests EXCEPT ![r] = new]
  BY DEF Receive
<1>. HIDE DEF new
<1>5. requests' \in [Request -> Waiting \union {Idle}]
  BY <1>3, <1>4, Typed
<1>. QED BY <1>5, IdleStep DEF Receive, Sighted

\* Who waits in a request.
LEMMA PrincipalFacts ==
  ASSUME IInv, NEW r \in Request, requests[r] # Idle
  PROVE  /\ requests[r].principal.user \in User
         /\ requests[r].principal.workspace \in Workspace
BY Typed DEF Waiting, Principal

\* A change of a credential by a request that waited.
LEMMA ChangeInv ==
  ASSUME IInv, NEW r \in Request, NEW u \in User, NEW w \in Workspace, NEW gone,
         SetCredential(u, w, gone, r, disk),
         UNCHANGED <<members, tokens, edits, resets>>
  PROVE  IInv'
<1>1. disk \in Store /\ Good(disk, changes, swept, resets', ended)
  BY DEF IInv, TypeOK
<1>2. OneResetPerToken'
  BY DEF IInv, OneResetPerToken
<1>. QED BY <1>1, <1>2, Typed, MemoryGood, SetCredentialInv

LEMMA ChangePasswordInv ==
  ASSUME IInv, NEW r \in Request, NEW gone, ChangePassword(r, gone)
  PROVE  IInv'
<1>1. /\ requests[r].principal.user \in User
      /\ requests[r].principal.workspace \in Workspace
  BY PrincipalFacts DEF ChangePassword, Resumes
<1>. QED BY <1>1, ChangeInv DEF ChangePassword

LEMMA ResetPasswordInv ==
  ASSUME IInv, NEW r \in Request, NEW u \in User, NEW gone, ResetPassword(r, u, gone)
  PROVE  IInv'
<1>1. requests[r].principal.workspace \in Workspace
  BY PrincipalFacts DEF ResetPassword, Resumes
<1>. QED BY <1>1, ChangeInv DEF ResetPassword

\* A user who is replaced has a later version; no session of the user is younger.
LEMMA PutUserInv ==
  ASSUME IInv, NEW r \in Request, NEW u \in User, NEW status \in {"ACTIVE", "DISABLED"},
         NEW c \in BOOLEAN, PutUser(r, u, status, c)
  PROVE  IInv'
<1>. DEFINE new == [status |-> status, credential |-> c, version |-> changes + 1]
<1>1. /\ changes' = changes + 1 /\ changes' \in 0..MaxVersion
      /\ users' = [users EXCEPT ![u] = new]
      /\ UNCHANGED <<members, sessions, tokens, edits, swept, ended, resets>>
  BY Typed, BoundAssumption DEF PutUser, Changed, history
<1>2. new \in Account /\ new.version = changes + 1
  BY <1>1 DEF Account
<1>. HIDE DEF new
<1>3. users' \in [User -> Account]
  BY <1>1, <1>2, Typed
<1>4. \A x \in User : /\ users[x].version \in Nat /\ users'[x].version \in Nat
                      /\ users[x].version <= users'[x].version
                      /\ users'[x].version <= changes'
  BY <1>1, <1>2, <1>3, Typed, MemoryGood, BoundAssumption DEF VersionsOrdered, Account
<1>5. VersionsOrdered(users', changes', swept)
  <2>. SUFFICES ASSUME NEW x \in User, NEW y \in Workspace
                PROVE  swept[x][y] <= users'[x].version
    BY <1>4 DEF VersionsOrdered
  <2>1. swept[x][y] \in Nat /\ swept[x][y] <= users[x].version
    BY Typed, MemoryGood, BoundAssumption DEF VersionsOrdered
  <2>. QED BY <2>1, <1>4
<1>6. AllFresh(sessions', users', swept)
  BY <1>1, <1>3, <1>4, Typed, MemoryGood, FreshLater
<1>7. Memory' \in Store /\ Good(Memory', changes', swept', resets', ended')
  <2>1. Memory' \in Store
    BY <1>1, <1>3, Typed, Parts DEF MemoryParts
  <2>. QED BY <2>1, <1>1, <1>5, <1>6, MemoryGood, Parts DEF Good, MemoryParts
<1>8. disk' \in {disk, Memory'} /\ faults' \in 0..MaxFaults
  BY WrittenFacts DEF PutUser
<1>9. disk' \in Store /\ Good(disk', changes', swept', resets', ended')
  <2>1. changes \in Nat /\ changes' \in Nat /\ changes <= changes' /\ disk \in Store
    BY <1>1, Typed, BoundAssumption
  <2>2. Good(disk, changes', swept, resets, ended)
    BY <2>1, GoodLater DEF IInv
  <2>. QED BY <2>1, <2>2, <1>1, <1>7, <1>8
<1>10. requests' \in [Request -> Waiting \union {Idle}] /\ OneResetPerToken'
  BY <1>1, LeaveFacts DEF PutUser, IInv, OneResetPerToken
<1>. QED BY <1>1, <1>7, <1>8, <1>9, <1>10, Typed, StepInv

LEMMA PutMembershipInv ==
  ASSUME IInv, NEW r \in Request, NEW u \in User, NEW m \in Asked, PutMembership(r, u, m)
  PROVE  IInv'
<1>1. requests[r].principal.workspace \in Workspace
  BY PrincipalFacts DEF PutMembership, Resumes
<1>2. members' = [members EXCEPT ![u][requests[r].principal.workspace] = m] /\ m \in Membership
  BY MemberAssumption DEF PutMembership
<1>3. members' \in [User -> [Workspace -> Membership \union {NoMember}]]
  <2>1. [members[u] EXCEPT ![requests[r].principal.workspace] = m]
          \in [Workspace -> Membership \union {NoMember}]
    BY <1>1, <1>2, Typed
  <2>. QED BY <2>1, <1>2, Typed
<1>4. /\ UNCHANGED <<users, sessions, tokens, changes, swept, ended, resets>>
      /\ edits' \in 0..MaxEdits
  BY Typed, BoundAssumption DEF PutMembership, history
<1>5. disk' \in {disk, Memory'} /\ faults' \in 0..MaxFaults
  BY WrittenFacts DEF PutMembership
<1>6. requests' \in [Request -> Waiting \union {Idle}]
  BY LeaveFacts DEF PutMembership
<1>7. Memory' \in Store /\ Good(Memory', changes, swept, resets, ended)
  BY <1>3, <1>4, Typed, MemoryGood, PartsStep
<1>. QED BY <1>4, <1>5, <1>6, <1>7, QuietStep

\* What has expired is not revoked, and is neither live nor open.
LEMMA ExpiredSessions ==
  ASSUME NEW f \in [SessionId -> Session \union {NoSession}], NEW s \in SessionId,
         NEW accounts, NEW sweeps, AllFresh(f, accounts, sweeps), RevokedIn(f, ended)
  PROVE  LET g == ExpiredIn(f, NoSession, s, "LIVE")
         IN  /\ g \in [SessionId -> Session \union {NoSession}]
             /\ AllFresh(g, accounts, sweeps) /\ RevokedIn(g, ended)
<1>. DEFINE g == ExpiredIn(f, NoSession, s, "LIVE")
<1>1. CASE f[s] # NoSession /\ f[s].state = "LIVE"
  <2>1. f[s] \in Session /\ Fresh(f[s], accounts, sweeps)
    BY <1>1 DEF AllFresh
  <2>2. g = [f EXCEPT ![s] = [f[s] EXCEPT !.state = "EXPIRED"]]
    BY <1>1 DEF ExpiredIn
  <2>3. /\ [f[s] EXCEPT !.state = "EXPIRED"] \in Session
        /\ Fresh([f[s] EXCEPT !.state = "EXPIRED"], accounts, sweeps)
    BY <2>1, EndedFacts
  <2>4. s \notin ended
    BY <1>1 DEF RevokedIn
  <2>. DEFINE session == [f[s] EXCEPT !.state = "EXPIRED"]
  <2>5. g = [f EXCEPT ![s] = session] /\ session \in Session /\ Fresh(session, accounts, sweeps)
    BY <2>2, <2>3
  <2>. HIDE DEF session, g
  <2>6. g \in [SessionId -> Session \union {NoSession}] /\ AllFresh(g, accounts, sweeps)
    BY <2>5 DEF AllFresh
  <2>7. RevokedIn(g, ended)
    BY <2>4, <2>5 DEF RevokedIn
  <2>. QED BY <2>6, <2>7 DEF g
<1>2. CASE ~(f[s] # NoSession /\ f[s].state = "LIVE")
  BY <1>2 DEF ExpiredIn
<1>. QED BY <1>1, <1>2

LEMMA ExpiredTokens ==
  ASSUME NEW f \in [TokenId -> Token \union {NoToken}], NEW t \in TokenId, OpenUnused(f, resets)
  PROVE  LET g == ExpiredIn(f, NoToken, t, "OPEN")
         IN  g \in [TokenId -> Token \union {NoToken}] /\ OpenUnused(g, resets)
<1>. DEFINE g == ExpiredIn(f, NoToken, t, "OPEN")
<1>1. CASE f[t] # NoToken /\ f[t].state = "OPEN"
  <2>1. f[t] \in Token
    BY <1>1
  <2>2. g = [f EXCEPT ![t] = [f[t] EXCEPT !.state = "EXPIRED"]]
    BY <1>1 DEF ExpiredIn
  <2>3. [f[t] EXCEPT !.state = "EXPIRED"] \in Token /\ [f[t] EXCEPT !.state = "EXPIRED"].state # "OPEN"
    BY <2>1 DEF Token
  <2>. QED BY <2>2, <2>3, SentinelAssumption DEF OpenUnused
<1>2. CASE ~(f[t] # NoToken /\ f[t].state = "OPEN")
  BY <1>2 DEF ExpiredIn
<1>. QED BY <1>1, <1>2

LEMMA TimePassesInv ==
  ASSUME IInv, TimePasses
  PROVE  IInv'
<1>1. UNCHANGED <<users, members, requests, changes, edits, faults, swept, ended, resets>>
  BY DEF TimePasses, counters, history
<1>2. disk \in Store /\ Good(disk, changes, swept, resets, ended)
  BY DEF IInv, TypeOK
<1>3. /\ disk.sessions \in [SessionId -> Session \union {NoSession}]
      /\ disk.tokens \in [TokenId -> Token \union {NoToken}]
      /\ AllFresh(disk.sessions, disk.users, swept) /\ RevokedIn(disk.sessions, ended)
      /\ OpenUnused(disk.tokens, resets)
  BY <1>2 DEF Good, Store
<1>4. ASSUME NEW s \in SessionId, sessions' = ExpiredIn(sessions, NoSession, s, "LIVE"),
             disk' = [disk EXCEPT !.sessions = ExpiredIn(@, NoSession, s, "LIVE")],
             UNCHANGED tokens
      PROVE  /\ Memory' \in Store /\ Good(Memory', changes, swept, resets, ended)
             /\ disk' \in Store /\ Good(disk', changes, swept, resets, ended)
  <2>1. Memory' \in Store /\ Good(Memory', changes, swept, resets, ended)
    BY <1>1, <1>4, Typed, MemoryGood, ExpiredSessions, PartsStep
  <2>2. /\ ExpiredIn(disk.sessions, NoSession, s, "LIVE") \in [SessionId -> Session \union {NoSession}]
        /\ AllFresh(ExpiredIn(disk.sessions, NoSession, s, "LIVE"), disk.users, swept)
        /\ RevokedIn(ExpiredIn(disk.sessions, NoSession, s, "LIVE"), ended)
    BY <1>3, ExpiredSessions
  <2>3. /\ disk' \in Store /\ disk'.users = disk.users /\ disk'.tokens = disk.tokens
        /\ disk'.sessions = ExpiredIn(disk.sessions, NoSession, s, "LIVE")
    BY <1>2, <1>4, <2>2 DEF Store
  <2>. QED BY <2>1, <2>2, <2>3, <1>2 DEF Good
<1>5. ASSUME NEW t \in TokenId, tokens' = ExpiredIn(tokens, NoToken, t, "OPEN"),
             disk' = [disk EXCEPT !.tokens = ExpiredIn(@, NoToken, t, "OPEN")],
             UNCHANGED sessions
      PROVE  /\ Memory' \in Store /\ Good(Memory', changes, swept, resets, ended)
             /\ disk' \in Store /\ Good(disk', changes, swept, resets, ended)
  <2>1. Memory' \in Store /\ Good(Memory', changes, swept, resets, ended)
    BY <1>1, <1>5, Typed, MemoryGood, ExpiredTokens, PartsStep
  <2>2. /\ ExpiredIn(disk.tokens, NoToken, t, "OPEN") \in [TokenId -> Token \union {NoToken}]
        /\ OpenUnused(ExpiredIn(disk.tokens, NoToken, t, "OPEN"), resets)
    BY <1>3, ExpiredTokens
  <2>3. /\ disk' \in Store /\ disk'.users = disk.users /\ disk'.sessions = disk.sessions
        /\ disk'.tokens = ExpiredIn(disk.tokens, NoToken, t, "OPEN")
    BY <1>2, <1>5, <2>2 DEF Store
  <2>. QED BY <2>1, <2>2, <2>3, <1>2 DEF Good
<1>6. /\ Memory' \in Store /\ Good(Memory', changes, swept, resets, ended)
      /\ disk' \in Store /\ Good(disk', changes, swept, resets, ended)
  BY <1>4, <1>5 DEF TimePasses
<1>7. OneResetPerToken'
  BY <1>1 DEF IInv, OneResetPerToken
<1>. QED BY <1>1, <1>6, <1>7, Typed, StepInv

\* The memory is what the file was.
LEMMA CrashInv ==
  ASSUME IInv, Crash
  PROVE  IInv'
<1>1. /\ Memory' = [users |-> disk.users, members |-> disk.members,
                    sessions |-> disk.sessions, tokens |-> disk.tokens]
      /\ UNCHANGED <<disk, changes, edits, swept, ended, resets>>
  BY DEF Crash, Memory, counters, history
<1>2. disk \in Store /\ Good(disk, changes, swept, resets, ended)
  BY DEF IInv, TypeOK
<1>3. Memory' = disk
  BY <1>1, <1>2 DEF Store
<1>4. requests' \in [Request -> Waiting \union {Idle}] /\ faults' \in 0..MaxFaults
  BY Typed, BoundAssumption DEF Crash, Fault
<1>. QED BY <1>1, <1>2, <1>3, <1>4, Typed, QuietStep

-----------------------------------------------------------------------------
\* The inductive invariant.
THEOREM Inductive == Spec => []IInv
<1>1. IInv /\ [Next]_vars => IInv'
  <2>. SUFFICES ASSUME IInv, [Next]_vars PROVE IInv'
    OBVIOUS
  <2>1. ASSUME NEW u \in User, NEW w \in Workspace, NEW s \in SessionId, Login(u, w, s) PROVE IInv'
    <3>1. requests' \in [Request -> Waiting \union {Idle}]
      BY <2>1, Typed DEF Login
    <3>. QED BY <2>1, <3>1, OpenInv DEF Login
  <2>2. ASSUME NEW s \in SessionId, Logout(s) PROVE IInv'
    BY <2>2, RevokeInv DEF Logout, Authentic, Live
  <2>3. ASSUME NEW s \in SessionId, NEW other \in SessionId, RevokeSession(s, other) PROVE IInv'
    BY <2>3, RevokeInv DEF RevokeSession
  <2>4. ASSUME NEW u \in User, NEW w \in Workspace, NEW t \in TokenId, RequestReset(u, w, t)
        PROVE  IInv'
    BY <2>4, RequestResetInv
  <2>5. ASSUME NEW t \in TokenId, NEW gone \in SUBSET SessionId, ConfirmReset(t, gone) PROVE IInv'
    BY <2>5, ConfirmResetInv
  <2>6. ASSUME NEW t \in TokenId, WasteToken(t) PROVE IInv'
    BY <2>6, WasteTokenInv
  <2>7. ASSUME NEW r \in Request, NEW s \in SessionId, NEW route \in Route, Receive(r, s, route)
        PROVE  IInv'
    BY <2>7, ReceiveInv
  <2>8. ASSUME NEW r \in Request, NEW gone \in SUBSET SessionId, ChangePassword(r, gone) PROVE IInv'
    BY <2>8, ChangePasswordInv
  <2>9. ASSUME NEW r \in Request, NEW u \in User, NEW status \in {"ACTIVE", "DISABLED"},
               NEW c \in BOOLEAN, PutUser(r, u, status, c)
        PROVE  IInv'
    BY <2>9, PutUserInv
  <2>10. ASSUME NEW r \in Request, NEW u \in User, NEW gone \in SUBSET SessionId,
                ResetPassword(r, u, gone)
         PROVE  IInv'
    BY <2>10, ResetPasswordInv
  <2>11. ASSUME NEW r \in Request, NEW u \in User, NEW m \in Asked, PutMembership(r, u, m)
         PROVE  IInv'
    BY <2>11, PutMembershipInv
  <2>12. ASSUME NEW r \in Request, NEW s \in SessionId, CreateSession(r, s) PROVE IInv'
    <3>1. /\ requests[r].principal.user \in User
          /\ requests[r].principal.workspace \in Workspace
      BY <2>12, PrincipalFacts DEF CreateSession, Resumes
    <3>2. requests' \in [Request -> Waiting \union {Idle}]
      BY <2>12, LeaveFacts DEF CreateSession
    <3>. QED BY <2>12, <3>1, <3>2, OpenInv DEF CreateSession
  <2>13. ASSUME NEW r \in Request, Refuse(r) PROVE IInv'
    BY <2>13, LeaveFacts, IdleStep DEF Refuse
  <2>14. CASE TimePasses
    BY <2>14, TimePassesInv
  <2>15. CASE Crash
    BY <2>15, CrashInv
  <2>16. CASE UNCHANGED vars
    BY <2>16, Typed, IdleStep DEF vars
  <2>. QED BY <2>1, <2>2, <2>3, <2>4, <2>5, <2>6, <2>7, <2>8, <2>9, <2>10, <2>11, <2>12,
              <2>13, <2>14, <2>15, <2>16 DEF Next
<1>. QED BY <1>1, InitInv, PTL DEF Spec

\* Every variable keeps its type, and no session is younger than its user's credential.
THEOREM TypeCorrect == Spec => []TypeOK
BY Inductive, PTL DEF IInv

\* A completed change of a password leaves no session alive that was opened before it in
\* that workspace (upsertUser, then revokeSession for each).
THEOREM RotationIsThorough == Spec => []RotationEndsSessions
<1>1. IInv => RotationEndsSessions
  BY MemoryGood DEF AllFresh, Fresh, RotationEndsSessions, Live, Exists
<1>. QED BY <1>1, Inductive, PTL

\* A reset token sets at most one password (consumeValidPasswordResetToken).
THEOREM ResetsAreSingle == Spec => []OneResetPerToken
BY Inductive, PTL DEF IInv

\* A session whose revocation was answered is revoked for good, in memory and in the file:
\* no save of a session that was found, no write that fails and no restart brings it back
\* (revokeSession, saveSession, loadStore).
THEOREM RevocationIsFinal == Spec => []AnsweredRevocationsHold
<1>1. IInv => AnsweredRevocationsHold
  BY MemoryGood DEF IInv, Good, RevokedIn, AnsweredRevocationsHold, Exists
<1>. QED BY <1>1, Inductive, PTL

-----------------------------------------------------------------------------
(***************************************************************************)
(* The limiters.                                                           *)
(***************************************************************************)

(***************************************************************************)
(* Sums.  The sum over a set of times is the number of units counted at    *)
(* these times, so that the facts about finite sets apply to it.           *)
(***************************************************************************)

Total(u, S) == MapThenSumSet(LAMBDA i : u[i], S)

UnitsOf(u, i) == {i} \X (1..u[i])
Units(u, S) == UNION {UnitsOf(u, i) : i \in S}

Sums(f, u, S) ==
  f = [s \in SUBSET S |-> IF s = {} THEN 0
                          ELSE u[CHOOSE i \in s : TRUE] + f[s \ {CHOOSE i \in s : TRUE}]]

LEMMA TotalIsSum ==
  ASSUME NEW u, NEW S
  PROVE  Total(u, S) = (CHOOSE f : Sums(f, u, S))[S]
BY Zenon DEF Total, MapThenSumSet, MapThenFoldSet, Sums

LEMMA TimesFinite == ASSUME NEW S \in SUBSET Time PROVE IsFiniteSet(S)
<1>1. IsFiniteSet(Time)
  BY FS_Interval, LimitAssumption DEF Time
<1>. QED BY <1>1, FS_Subset

LEMMA UnitsOfOne ==
  ASSUME NEW u \in [Time -> Nat], NEW i \in Time
  PROVE  IsFiniteSet(UnitsOf(u, i)) /\ Cardinality(UnitsOf(u, i)) = u[i]
<1>. DEFINE n == u[i]
            A == {i}
            N == 1..n
<1>1. n \in Nat
  OBVIOUS
<1>. HIDE DEF n
<1>2. IsFiniteSet(A) /\ Cardinality(A) = 1
  BY FS_Singleton
<1>3. IsFiniteSet(N) /\ Cardinality(N) = n
  BY <1>1, FS_Interval
<1>. HIDE DEF A, N
<1>4. IsFiniteSet(A \X N) /\ Cardinality(A \X N) = Cardinality(A) * Cardinality(N)
  BY <1>2, <1>3, FS_Product
<1>5. IsFiniteSet(A \X N) /\ Cardinality(A \X N) = n
  BY <1>1, <1>2, <1>3, <1>4
<1>. QED BY <1>5 DEF UnitsOf, n, A, N

LEMMA UnitsFinite ==
  ASSUME NEW u \in [Time -> Nat], NEW S \in SUBSET Time
  PROVE  IsFiniteSet(Units(u, S)) /\ Cardinality(Units(u, S)) \in Nat
<1>. DEFINE f == [i \in S |-> UnitsOf(u, i)]
            T == {UnitsOf(u, i) : i \in S}
<1>1. f \in Surjection(S, T)
  BY DEF Surjection
<1>. HIDE DEF f
<1>2. \A U \in T : IsFiniteSet(U)
  BY UnitsOfOne
<1>3. Units(u, S) = UNION T
  BY DEF Units
<1>. HIDE DEF T
<1>4. IsFiniteSet(T)
  BY <1>1, TimesFinite, FS_Surjection
<1>. QED BY <1>2, <1>3, <1>4, FS_UNION, FS_CardinalityType

LEMMA UnitsAdd ==
  ASSUME NEW u \in [Time -> Nat], NEW S \in SUBSET Time, NEW T \in SUBSET Time, S \cap T = {}
  PROVE  Cardinality(Units(u, S \cup T)) = Cardinality(Units(u, S)) + Cardinality(Units(u, T))
<1>. DEFINE A == Units(u, S)
            B == Units(u, T)
<1>1. Units(u, S \cup T) = A \cup B /\ A \cap B = {}
  BY DEF Units, UnitsOf
<1>2. IsFiniteSet(A) /\ IsFiniteSet(B) /\ Cardinality(A) \in Nat /\ Cardinality(B) \in Nat
  BY UnitsFinite
<1>. HIDE DEF A, B
<1>3. Cardinality(A \cup B) = Cardinality(A) + Cardinality(B) - Cardinality(A \cap B)
  BY <1>2, FS_Union
<1>4. Cardinality(A \cap B) = 0
  BY <1>1, FS_EmptySet
<1>5. Cardinality(A \cup B) = Cardinality(A) + Cardinality(B)
  BY <1>2, <1>3, <1>4
<1>. QED BY <1>1, <1>5 DEF A, B

LEMMA UnitsSum ==
  ASSUME NEW u \in [Time -> Nat], NEW S \in SUBSET Time
  PROVE  Sums([s \in SUBSET S |-> Cardinality(Units(u, s))], u, S)
<1>. DEFINE h == [s \in SUBSET S |-> Cardinality(Units(u, s))]
<1>1. ASSUME NEW s \in SUBSET S
      PROVE  h[s] = IF s = {} THEN 0
                    ELSE u[CHOOSE i \in s : TRUE] + h[s \ {CHOOSE i \in s : TRUE}]
  <2>1. CASE s = {}
    <3>1. Units(u, s) = {}
      BY <2>1 DEF Units
    <3>. QED BY <3>1, <2>1, FS_EmptySet
  <2>2. CASE s # {}
    <3>. DEFINE i == CHOOSE j \in s : TRUE
                r == s \ {i}
    <3>1. i \in s
      BY <2>2
    <3>. HIDE DEF i
    <3>2. /\ r \cup {i} = s /\ r \cap {i} = {} /\ r \in SUBSET S
          /\ r \in SUBSET Time /\ {i} \in SUBSET Time /\ i \in Time
      BY <3>1
    <3>. HIDE DEF r
    <3>3. Cardinality(Units(u, s)) = Cardinality(Units(u, r)) + Cardinality(Units(u, {i}))
      BY <3>2, UnitsAdd
    <3>4. Units(u, {i}) = UnitsOf(u, i)
      BY DEF Units
    <3>5. h[s] = h[r] + u[i]
      BY <3>2, <3>3, <3>4, UnitsOfOne
    <3>6. h[r] \in Nat /\ u[i] \in Nat
      BY <3>2, UnitsFinite
    <3>. HIDE DEF h
    <3>7. h[s] = u[i] + h[r]
      BY <3>5, <3>6
    <3>. QED BY <2>2, <3>7 DEF r, i
  <2>. QED BY <2>1, <2>2
<1>. QED BY <1>1 DEF Sums

\* The recursion has one solution on the finite subsets.
LEMMA SumsUnique ==
  ASSUME NEW S, IsFiniteSet(S), NEW u, NEW f, NEW g, Sums(f, u, S), Sums(g, u, S)
  PROVE  f[S] = g[S]
<1>. DEFINE A == {s \in SUBSET S : f[s] # g[s]}
<1>. SUFFICES ASSUME A # {} PROVE FALSE
  OBVIOUS
<1>1. IsWellFoundedOn(StrictSubsetOrdering(S), SUBSET S)
  BY FS_StrictSubsetOrderingWellFounded, FS_FiniteSubsetsOfFinite
<1>2. PICK s \in A : \A t \in A : <<t, s>> \notin StrictSubsetOrdering(S)
  <2>1. A \subseteq SUBSET S
    OBVIOUS
  <2>. HIDE DEF A
  <2>. QED BY <1>1, <2>1, WFMin
<1>. DEFINE i == CHOOSE j \in s : TRUE
<1>3. CASE s = {}
  BY <1>2, <1>3 DEF Sums
<1>4. CASE s # {}
  <2>1. i \in s
    BY <1>4
  <2>2. f[s] = u[i] + f[s \ {i}] /\ g[s] = u[i] + g[s \ {i}]
    BY <1>2, <1>4, Zenon DEF Sums
  <2>. HIDE DEF i
  <2>3. <<s \ {i}, s>> \in StrictSubsetOrdering(S)
    BY <1>2, <2>1 DEF StrictSubsetOrdering
  <2>4. s \ {i} \notin A
    <3>. HIDE DEF A
    <3>. QED BY <1>2, <2>3
  <2>5. f[s \ {i}] = g[s \ {i}]
    BY <1>2, <2>4
  <2>. QED BY <1>2, <2>2, <2>5
<1>. QED BY <1>3, <1>4

LEMMA TotalIsUnits ==
  ASSUME NEW u \in [Time -> Nat], NEW S \in SUBSET Time
  PROVE  Total(u, S) = Cardinality(Units(u, S)) /\ Total(u, S) \in Nat
<1>. DEFINE h == [s \in SUBSET S |-> Cardinality(Units(u, s))]
            F == CHOOSE f : Sums(f, u, S)
<1>1. Sums(h, u, S)
  BY UnitsSum
<1>. HIDE DEF h
<1>2. Sums(F, u, S)
  BY <1>1
<1>3. F[S] = h[S]
  <2>. HIDE DEF F
  <2>. QED BY <1>1, <1>2, SumsUnique, TimesFinite
<1>4. h[S] = Cardinality(Units(u, S))
  BY DEF h
<1>. QED BY <1>3, <1>4, TotalIsSum, UnitsFinite

-----------------------------------------------------------------------------
(* What the proof needs of sums. *)

LEMMA TotalOfBoth ==
  ASSUME NEW u \in [Time -> Nat], NEW S \in SUBSET Time, NEW T \in SUBSET Time, S \cap T = {}
  PROVE  Total(u, S \cup T) = Total(u, S) + Total(u, T)
<1>1. /\ Total(u, S) = Cardinality(Units(u, S)) /\ Total(u, T) = Cardinality(Units(u, T))
      /\ Total(u, S \cup T) = Cardinality(Units(u, S \cup T))
  BY TotalIsUnits
<1>. QED BY <1>1, UnitsAdd

LEMMA TotalOfPart ==
  ASSUME NEW u \in [Time -> Nat], NEW S \in SUBSET Time, NEW T \in SUBSET S
  PROVE  Total(u, T) <= Total(u, S)
<1>1. T \cup (S \ T) = S /\ T \cap (S \ T) = {} /\ T \in SUBSET Time /\ S \ T \in SUBSET Time
  OBVIOUS
<1>2. Total(u, S) = Total(u, T) + Total(u, S \ T)
  BY <1>1, TotalOfBoth
<1>3. Total(u, T) \in Nat /\ Total(u, S \ T) \in Nat
  BY <1>1, TotalIsUnits
<1>. QED BY <1>2, <1>3

LEMMA TotalOfNone ==
  ASSUME NEW u \in [Time -> Nat], NEW S \in SUBSET Time, \A i \in S : u[i] = 0
  PROVE  Total(u, S) = 0
<1>1. Units(u, S) = {}
  BY DEF Units, UnitsOf
<1>. QED BY <1>1, TotalIsUnits, FS_EmptySet

LEMMA TotalOfOne ==
  ASSUME NEW u \in [Time -> Nat], NEW t \in Time
  PROVE  Total(u, {t}) = u[t]
<1>1. Units(u, {t}) = UnitsOf(u, t)
  BY DEF Units
<1>. QED BY <1>1, TotalIsUnits, UnitsOfOne

LEMMA TotalOfSame ==
  ASSUME NEW u \in [Time -> Nat], NEW v \in [Time -> Nat], NEW S \in SUBSET Time,
         \A i \in S : u[i] = v[i]
  PROVE  Total(u, S) = Total(v, S)
<1>1. Units(u, S) = Units(v, S)
  BY DEF Units, UnitsOf
<1>. QED BY <1>1, TotalIsUnits

\* Rows that are let in at a time count wherever this time does.
More(u, t, rows) == [u EXCEPT ![t] = @ + rows]

LEMMA TotalOfMore ==
  ASSUME NEW u \in [Time -> Nat], NEW t \in Time, NEW rows \in Nat, NEW S \in SUBSET Time
  PROVE  /\ t \in S => Total(More(u, t, rows), S) = Total(u, S) + rows
         /\ t \notin S => Total(More(u, t, rows), S) = Total(u, S)
<1>. DEFINE v == More(u, t, rows)
<1>1. /\ v \in [Time -> Nat] /\ v[t] = u[t] + rows
      /\ \A i \in Time : i # t => v[i] = u[i]
  BY DEF More
<1>. HIDE DEF v
<1>2. CASE t \notin S
  <2>1. \A i \in S : u[i] = v[i]
    BY <1>1, <1>2
  <2>2. Total(u, S) = Total(v, S)
    BY <1>1, <2>1, TotalOfSame
  <2>. QED BY <1>2, <2>2 DEF v
<1>3. CASE t \in S
  <2>. DEFINE R == S \ {t}
  <2>1. R \cup {t} = S /\ R \cap {t} = {} /\ R \in SUBSET Time /\ {t} \in SUBSET Time
    BY <1>3
  <2>2. \A i \in R : u[i] = v[i]
    BY <1>1
  <2>. HIDE DEF R
  <2>3. ASSUME NEW w \in [Time -> Nat] PROVE Total(w, S) = Total(w, R) + w[t]
    <3>1. Total(w, R \cup {t}) = Total(w, R) + Total(w, {t})
      BY <2>1, TotalOfBoth
    <3>. QED BY <2>1, <3>1, TotalOfOne
  <2>4. Total(v, R) = Total(u, R)
    BY <1>1, <2>1, <2>2, TotalOfSame
  <2>5. v[t] = u[t] + rows /\ u[t] \in Nat /\ Total(u, R) \in Nat
    BY <1>1, <2>1, TotalIsUnits
  <2>6. Total(v, S) = Total(v, R) + v[t] /\ Total(u, S) = Total(u, R) + u[t]
    BY <1>1, <2>3
  <2>. QED BY <1>3, <2>4, <2>5, <2>6 DEF v
<1>. QED BY <1>2, <1>3
-----------------------------------------------------------------------------
(* The invariant. *)

Since(t) == {i \in Time : t <= i}
Stretch(t) == {i \in Time : t - Span < i /\ i <= t}
Before(t) == {i \in Time : t - Span < i /\ i < t}

\* What a window may find used in the length of a window before its start.
Slack(l) == IF l = "LOGIN" /\ Limit > 1 THEN Limit - 2 ELSE Limit - 1

\* The uses from a window's start on are those the window counts, ...
WindowInv ==
  window # NoWindow =>
    /\ window.start <= now
    /\ window.count \in 1..Limit
    /\ uses[window.start] >= 1
    /\ \A i \in Time : i >= window.start + Span => uses[i] = 0
    /\ Total(uses, Since(window.start)) = window.count
    /\ Total(uses, Before(window.start)) <= Slack(limiter)

\* ... a login is locked by the last failure of a full window, ...
LockInv ==
  window # NoWindow /\ limiter = "LOGIN" =>
    IF window.count < Limit THEN window.until = 0
    ELSE /\ window.start + Span <= window.until
         /\ window.until < window.start + Span + Span
         /\ \A i \in Time : i > window.until - Span => uses[i] = 0

\* ... what a stretch holds is bounded, and the rest is empty.
Bounded == \A t \in Time : Total(uses, Stretch(t)) <= Slack(limiter) + Limit
NoneAhead == \A i \in Time : i > now => uses[i] = 0
NoneKept == window = NoWindow => \A i \in Time : uses[i] = 0

ThrottleInv == ThrottleTypeOK /\ WindowInv /\ LockInv /\ Bounded /\ NoneAhead /\ NoneKept

LEMMA SlackNat == ASSUME NEW l PROVE Slack(l) \in Nat /\ Limit \in Nat \ {0} /\ Span \in Nat \ {0}
BY LimitAssumption DEF Slack

\* A use at t in a window that starts at s.
LEMMA OneMoreUse ==
  ASSUME NEW u \in [Time -> Nat], NEW s \in Time, NEW t \in Time, s <= t, NEW k \in Nat,
         NEW rows \in Nat \ {0},
         Total(u, Before(s)) <= k, Total(u, Since(s)) + rows <= Limit,
         \A x \in Time : Total(u, Stretch(x)) <= k + Limit
  PROVE  /\ Total(More(u, t, rows), Since(s)) = Total(u, Since(s)) + rows
         /\ Total(More(u, t, rows), Before(s)) <= k
         /\ \A x \in Time : Total(More(u, t, rows), Stretch(x)) <= k + Limit
<1>. DEFINE v == More(u, t, rows)
<1>1. v \in [Time -> Nat]
  BY DEF More
<1>. HIDE DEF v
<1>2. /\ Since(s) \in SUBSET Time /\ Before(s) \in SUBSET Time
      /\ t \in Since(s) /\ t \notin Before(s)
  BY DEF Since, Before, Time
<1>3. Total(v, Since(s)) = Total(u, Since(s)) + rows
  BY <1>2, TotalOfMore DEF v
<1>4. Total(v, Before(s)) = Total(u, Before(s))
  BY <1>2, TotalOfMore DEF v
<1>5. ASSUME NEW x \in Time PROVE Total(v, Stretch(x)) <= k + Limit
  <2>1. Stretch(x) \in SUBSET Time
    BY DEF Stretch
  <2>2. CASE t \notin Stretch(x)
    <3>1. Total(v, Stretch(x)) = Total(u, Stretch(x))
      BY <2>1, <2>2, TotalOfMore DEF v
    <3>. QED BY <3>1
  <2>3. CASE t \in Stretch(x)
    <3>. DEFINE A == Stretch(x) \cap Since(s)
                B == Stretch(x) \ Since(s)
    <3>1. /\ A \in SUBSET Since(s) /\ A \in SUBSET Time
          /\ A \cup B = Stretch(x) /\ A \cap B = {} /\ B \in SUBSET Time
      BY <2>1 DEF Since
    <3>2. B \in SUBSET Before(s)
      BY <2>3, LimitAssumption DEF Stretch, Since, Before, Time
    <3>. HIDE DEF A, B
    <3>3. Total(v, Stretch(x)) = Total(v, A) + Total(v, B)
      <4>1. Total(v, A \cup B) = Total(v, A) + Total(v, B)
        BY <1>1, <3>1, TotalOfBoth
      <4>. QED BY <3>1, <4>1
    <3>4. Total(v, A) <= Total(v, Since(s)) /\ Total(v, B) <= Total(v, Before(s))
      BY <1>1, <1>2, <3>1, <3>2, TotalOfPart
    <3>5. /\ Total(v, A) \in Nat /\ Total(v, B) \in Nat
          /\ Total(v, Since(s)) \in Nat /\ Total(v, Before(s)) \in Nat
      BY <1>1, <1>2, <3>1, TotalIsUnits
    <3>6. Total(v, Since(s)) <= Limit /\ Total(v, Before(s)) <= k
      BY <1>3, <1>4
    <3>. HIDE DEF Since, Before
    <3>. QED BY <3>3, <3>4, <3>5, <3>6, LimitAssumption
  <2>. QED BY <2>2, <2>3
<1>. QED BY <1>3, <1>4, <1>5 DEF v

\* Before the first moment of a new window there is less than a whole window: the one
\* that ended has its own first moment further back, and a full one was locked.
LEMMA NewWindow ==
  ASSUME ThrottleInv, NEW t \in Time, now <= t, Expired(t), limiter = "LOGIN" => ~Locked(now)
  PROVE  Total(uses, Since(t)) = 0 /\ Total(uses, Before(t)) <= Slack(limiter)
<1>. USE DEF ThrottleInv
<1>1. uses \in [Time -> Nat] /\ Since(t) \in SUBSET Time /\ Before(t) \in SUBSET Time
  BY DEF ThrottleTypeOK, Since, Before
<1>2. Slack(limiter) \in Nat /\ Limit \in Nat \ {0} /\ Span \in Nat \ {0}
  BY SlackNat
<1>3. CASE window = NoWindow
  <2>1. \A i \in Time : uses[i] = 0
    BY <1>3 DEF NoneKept
  <2>2. Total(uses, Since(t)) = 0 /\ Total(uses, Before(t)) = 0
    BY <1>1, <2>1, TotalOfNone
  <2>. QED BY <1>2, <2>2
<1>4. CASE window # NoWindow
  <2>. DEFINE s == window.start
              c == window.count
  <2>1. s \in Time /\ c \in 1..Limit /\ uses[s] >= 1 /\ s + Span <= t
    BY <1>2, <1>4 DEF ThrottleTypeOK, WindowRecord, WindowInv, Expired, Time
  <2>2. \A i \in Since(t) : uses[i] = 0
    BY <1>2, <1>4, <2>1 DEF Since, WindowInv, Time
  <2>3. Total(uses, Since(t)) = 0
    BY <1>1, <2>2, TotalOfNone
  <2>4. Total(uses, Since(s)) = c
    BY <1>4 DEF WindowInv
  <2>. HIDE DEF s, c
  <2>5. Total(uses, Before(t)) <= c - 1
    <3>1. /\ Before(t) \in SUBSET (Since(s) \ {s}) /\ Since(s) \in SUBSET Time /\ {s} \in SUBSET Time
          /\ Since(s) = (Since(s) \ {s}) \cup {s} /\ (Since(s) \ {s}) \cap {s} = {}
      BY <1>2, <2>1 DEF Since, Before, Time
    <3>. DEFINE R == Since(s) \ {s}
    <3>2. R \in SUBSET Time
      BY <3>1
    <3>3. Total(uses, R \cup {s}) = Total(uses, R) + Total(uses, {s})
      BY <1>1, <3>1, TotalOfBoth
    <3>4. Total(uses, Before(t)) <= Total(uses, R)
      BY <1>1, <3>1, TotalOfPart
    <3>. HIDE DEF R
    <3>5. Total(uses, R) \in Nat /\ Total(uses, Before(t)) \in Nat /\ uses[s] \in Nat
      BY <1>1, <2>1, <3>2, TotalIsUnits
    <3>6. c = Total(uses, R) + uses[s]
      BY <1>1, <2>1, <2>4, <3>1, <3>3, TotalOfOne DEF R
    <3>. QED BY <2>1, <3>4, <3>5, <3>6
  <2>6. Total(uses, Before(t)) \in Nat
    BY <1>1, TotalIsUnits
  <2>7. CASE limiter = "LOGIN" /\ Limit > 1 /\ c = Limit
    <3>1. window.until <= now /\ \A i \in Time : i > window.until - Span => uses[i] = 0
      BY <1>2, <1>4, <2>7 DEF c, LockInv, Locked, ThrottleTypeOK, WindowRecord, Time
    <3>2. window.until \in Nat /\ now \in Int
      BY <1>4 DEF ThrottleTypeOK, WindowRecord, Time
    <3>3. \A i \in Before(t) : uses[i] = 0
      BY <1>2, <3>1, <3>2 DEF Before, Time
    <3>4. Total(uses, Before(t)) = 0
      BY <1>1, <3>3, TotalOfNone
    <3>. QED BY <1>2, <2>3, <3>4
  <2>8. CASE ~(limiter = "LOGIN" /\ Limit > 1 /\ c = Limit)
    <3>1. c - 1 <= Slack(limiter)
      BY <1>2, <2>1, <2>8 DEF Slack
    <3>. QED BY <1>2, <2>1, <2>3, <2>5, <2>6, <3>1
  <2>. QED BY <2>7, <2>8
<1>. QED BY <1>3, <1>4

\* So whichever limiter lets rows in at t, what it knew of its window stays true.
LEMMA UseKeepsWindow ==
  ASSUME ThrottleInv, NEW t \in Time, NEW rows \in Nat \ {0}, now <= t, t = now' \/ now = now',
         limiter' = limiter, now' \in Time, t <= now',
         limiter = "LOGIN" => ~Locked(now), Counted(t) + rows <= Limit,
         NEW until \in Nat,
         window' = [start |-> StartAt(t), count |-> Counted(t) + rows, until |-> until],
         Use(t, rows)
  PROVE  ThrottleTypeOK' /\ WindowInv' /\ Bounded' /\ NoneAhead' /\ NoneKept'
<1>. USE DEF ThrottleInv
<1>0. Slack(limiter) \in Nat /\ Limit \in Nat \ {0} /\ Span \in Nat \ {0}
  BY SlackNat
<1>1. uses \in [Time -> Nat] /\ uses' = [uses EXCEPT ![t] = @ + rows] /\ now \in Time
  BY DEF ThrottleTypeOK, Use
<1>. DEFINE s == StartAt(t)
<1>2. PICK n : n = Counted(t)
  OBVIOUS
<1>3. /\ s \in Time /\ s <= t /\ t < s + Span /\ n \in Nat
      /\ Total(uses, Since(s)) = n /\ Total(uses, Before(s)) <= Slack(limiter)
      /\ s = t \/ uses[s] >= 1
      /\ \A i \in Time : i >= s + Span => uses[i] = 0
  <2>1. CASE Expired(t)
    <3>1. s = t /\ n = 0
      BY <1>2, <2>1 DEF StartAt, Counted
    <3>2. Total(uses, Since(t)) = 0 /\ Total(uses, Before(t)) <= Slack(limiter)
      BY <2>1, NewWindow
    <3>3. \A i \in Time : i >= s + Span => uses[i] = 0
      BY <1>0, <1>1, <3>1 DEF NoneAhead, Time
    <3>4. t \in Int
      BY DEF Time
    <3>. HIDE DEF s
    <3>. QED BY <1>0, <3>1, <3>2, <3>3, <3>4
  <2>2. CASE ~Expired(t)
    <3>1. window # NoWindow /\ s = window.start /\ n = window.count /\ t - s < Span
      BY <1>0, <1>2, <2>2 DEF StartAt, Counted, Expired, Time, ThrottleTypeOK, WindowRecord
    <3>2. s \in Time /\ n \in Nat /\ t \in Int /\ s \in Int /\ now \in Int
      BY <1>1, <3>1 DEF ThrottleTypeOK, WindowRecord, Time
    <3>. HIDE DEF s
    <3>3. s <= now /\ uses[s] >= 1 /\ \A i \in Time : i >= s + Span => uses[i] = 0
      BY <3>1 DEF WindowInv
    <3>4. Total(uses, Since(s)) = n /\ Total(uses, Before(s)) <= Slack(limiter)
      BY <3>1 DEF WindowInv
    <3>. QED BY <1>0, <3>1, <3>2, <3>3, <3>4
  <2>. QED BY <2>1, <2>2
<1>. HIDE DEF s
<1>4. \A x \in Time : Total(uses, Stretch(x)) <= Slack(limiter) + Limit
  BY DEF Bounded
<1>5. /\ uses' \in [Time -> Nat]
      /\ Total(uses', Since(s)) = n + rows
      /\ Total(uses', Before(s)) <= Slack(limiter)
      /\ \A x \in Time : Total(uses', Stretch(x)) <= Slack(limiter) + Limit
  <2>1. uses' = More(uses, t, rows) /\ uses' \in [Time -> Nat]
    BY <1>1 DEF More
  <2>2. Total(uses, Since(s)) + rows <= Limit /\ rows \in Nat
    BY <1>2, <1>3
  <2>3. /\ s \in Time /\ s <= t /\ Slack(limiter) \in Nat
        /\ Total(uses, Since(s)) = n /\ Total(uses, Before(s)) <= Slack(limiter)
    BY <1>0, <1>3
  <2>4. /\ Total(More(uses, t, rows), Since(s)) = Total(uses, Since(s)) + rows
        /\ Total(More(uses, t, rows), Before(s)) <= Slack(limiter)
        /\ \A x \in Time : Total(More(uses, t, rows), Stretch(x)) <= Slack(limiter) + Limit
    BY <1>1, <1>4, <2>2, <2>3, OneMoreUse
  <2>. QED BY <2>1, <2>3, <2>4
<1>6. window' = [start |-> s, count |-> n + rows, until |-> until]
  BY <1>2 DEF s
<1>7. ThrottleTypeOK'
  BY <1>3, <1>5, <1>6 DEF ThrottleTypeOK, WindowRecord
<1>8. window' # NoWindow
  BY <1>3, <1>6, NoWindowAssumption DEF WindowRecord
<1>9. uses'[s] >= 1 /\ \A i \in Time : i >= s + Span => uses'[i] = 0
  <2>1. uses'[s] >= 1
    <3>1. CASE s = t
      BY <1>1, <3>1
    <3>2. CASE s # t
      BY <1>1, <1>3, <3>2
    <3>. QED BY <3>1, <3>2
  <2>2. ASSUME NEW i \in Time, i >= s + Span PROVE uses'[i] = 0
    <3>1. i # t
      BY <1>0, <1>3, <2>2 DEF Time
    <3>. QED BY <1>1, <1>3, <2>2, <3>1
  <2>. QED BY <2>1, <2>2
<1>10. WindowInv'
  <2>1. s <= now' /\ n + rows \in 1..Limit
    BY <1>0, <1>2, <1>3 DEF Time
  <2>2. window'.start = s /\ window'.count = n + rows
    BY <1>6
  <2>. QED BY <1>5, <1>9, <2>1, <2>2 DEF WindowInv
<1>11. Bounded'
  BY <1>5 DEF Bounded
<1>12. NoneAhead'
  <2>. SUFFICES ASSUME NEW i \in Time, i > now' PROVE uses'[i] = 0
    BY DEF NoneAhead
  <2>1. i # t /\ i > now
    BY <1>1 DEF Time
  <2>. QED BY <1>1, <2>1 DEF NoneAhead
<1>. QED BY <1>7, <1>8, <1>10, <1>11, <1>12 DEF NoneKept

\* When everything is forgotten, there is nothing to bound.
LEMMA ForgettingIsSafe ==
  ASSUME ThrottleTypeOK, window' = NoWindow, uses' = [t \in Time |-> 0], UNCHANGED <<limiter, now>>
  PROVE  ThrottleInv'
<1>1. ThrottleTypeOK'
  BY DEF ThrottleTypeOK
<1>2. ASSUME NEW t \in Time PROVE Total(uses', Stretch(t)) <= Slack(limiter') + Limit
  <2>1. /\ uses' \in [Time -> Nat] /\ Stretch(t) \in SUBSET Time
        /\ \A i \in Stretch(t) : uses'[i] = 0
    BY DEF Stretch
  <2>2. Total(uses', Stretch(t)) = 0
    BY <2>1, TotalOfNone
  <2>3. Slack(limiter') \in Nat /\ Limit \in Nat
    BY SlackNat
  <2>. QED BY <2>2, <2>3
<1>3. Bounded'
  BY <1>2 DEF Bounded
<1>. QED BY <1>1, <1>3 DEF ThrottleInv, WindowInv, LockInv, NoneAhead, NoneKept

-----------------------------------------------------------------------------
LEMMA ThrottlesStart == ThrottleInit => ThrottleInv
<1>. SUFFICES ASSUME ThrottleInit PROVE ThrottleInv
  OBVIOUS
<1>1. ThrottleTypeOK
  BY LimitAssumption DEF ThrottleInit, ThrottleTypeOK, Time
<1>2. ASSUME NEW t \in Time PROVE Total(uses, Stretch(t)) <= Slack(limiter) + Limit
  <2>1. /\ uses \in [Time -> Nat] /\ Stretch(t) \in SUBSET Time
        /\ \A i \in Stretch(t) : uses[i] = 0
    BY DEF Stretch, ThrottleInit
  <2>2. Total(uses, Stretch(t)) = 0
    BY <2>1, TotalOfNone
  <2>3. Slack(limiter) \in Nat /\ Limit \in Nat
    BY SlackNat
  <2>. QED BY <2>2, <2>3
<1>3. Bounded
  BY <1>2 DEF Bounded
<1>. QED BY <1>1, <1>3 DEF ThrottleInit, ThrottleInv, WindowInv, LockInv, NoneAhead, NoneKept

LEMMA ThrottlesStep == ThrottleInv /\ [ThrottleNext]_throttleVars => ThrottleInv'
<1>. SUFFICES ASSUME ThrottleInv, [ThrottleNext]_throttleVars PROVE ThrottleInv'
  OBVIOUS
<1>0. ThrottleTypeOK
  BY DEF ThrottleInv
<1>1. CASE Tick
  <2>1. ThrottleTypeOK' /\ now \in Time /\ now' = now + 1
    BY <1>1, LimitAssumption DEF ThrottleInv, ThrottleTypeOK, Tick, Time
  <2>2. NoneAhead'
    BY <1>1, <2>1 DEF ThrottleInv, Tick, NoneAhead, Time
  <2>3. WindowInv'
    BY <1>0, <1>1, <2>1 DEF ThrottleInv, Tick, WindowInv, Time, ThrottleTypeOK, WindowRecord
  <2>. QED BY <1>1, <2>1, <2>2, <2>3 DEF ThrottleInv, Tick, LockInv, Bounded, NoneKept
<1>2. ASSUME NEW later \in {now, now + 1} \intersect Time, FailLogin(later) PROVE ThrottleInv'
  <2>1. later \in Time /\ now <= later /\ now' = later /\ limiter' = limiter
    BY <1>0, <1>2 DEF FailLogin, ThrottleTypeOK, Time
  <2>2. limiter = "LOGIN" /\ ~Locked(now)
    BY <1>2 DEF FailLogin
  <2>3. PICK n : n = Counted(later)
    OBVIOUS
  <2>4. n \in Nat /\ n + 1 <= Limit
    <3>1. CASE Expired(later)
      BY <2>3, <3>1, LimitAssumption DEF Counted
    <3>2. CASE ~Expired(later)
      <4>1. window # NoWindow /\ n = window.count /\ later - window.start < Span
        BY <1>0, <2>1, <2>3, <3>2, LimitAssumption DEF Counted, Expired, ThrottleTypeOK, WindowRecord, Time
      <4>2. /\ window.start \in Int /\ window.until \in Int /\ now \in Int /\ later \in Int
            /\ n \in 1..Limit /\ Limit \in Nat /\ Span \in Nat
        BY <1>0, <2>1, <4>1, LimitAssumption DEF ThrottleInv, WindowInv, ThrottleTypeOK, WindowRecord, Time
      <4>3. window.until <= now
        BY <2>2, <4>1, <4>2 DEF Locked
      <4>4. n < Limit
        BY <2>1, <2>2, <4>1, <4>2, <4>3 DEF ThrottleInv, LockInv
      <4>. QED BY <4>2, <4>4
    <3>. QED BY <3>1, <3>2
  <2>. DEFINE until == IF n + 1 >= Limit THEN later + Span ELSE 0
  <2>5. window' = [start |-> StartAt(later), count |-> n + 1, until |-> until]
    BY <1>2, <2>3 DEF FailLogin, FailedAt, Counted, StartAt
  <2>6. until \in Nat
    BY <2>1, LimitAssumption DEF Time
  <2>. HIDE DEF until
  <2>7. Use(later, 1)
    BY <1>2 DEF FailLogin
  <2>8. ThrottleTypeOK' /\ WindowInv' /\ Bounded' /\ NoneAhead' /\ NoneKept'
    <3>1. later <= now' /\ now' \in Time /\ 1 \in Nat \ {0}
      BY <2>1 DEF Time
    <3>2. /\ Counted(later) + 1 <= Limit
          /\ window' = [start |-> StartAt(later), count |-> Counted(later) + 1, until |-> until]
      BY <2>3, <2>4, <2>5
    <3>. QED BY <2>1, <2>2, <2>6, <2>7, <3>1, <3>2, UseKeepsWindow
  <2>9. LockInv'
    <3>1. window'.count = n + 1 /\ window'.until = until /\ window'.start = StartAt(later)
      BY <2>5
    <3>2. StartAt(later) <= later /\ later < StartAt(later) + Span
      BY <1>0, <2>1, LimitAssumption DEF StartAt, ThrottleInv, WindowInv, Expired, ThrottleTypeOK, WindowRecord, Time
    <3>3. StartAt(later) \in Int /\ later \in Int /\ Span \in Nat
      BY <1>0, <2>1, LimitAssumption DEF StartAt, Expired, ThrottleTypeOK, WindowRecord, Time
    <3>4. CASE n + 1 < Limit
      <4>1. until = 0
        BY <2>4, <3>4, LimitAssumption DEF until
      <4>. QED BY <3>1, <3>4, <4>1 DEF LockInv
    <3>5. CASE ~(n + 1 < Limit)
      <4>1. until = later + Span
        BY <2>4, <3>5, LimitAssumption DEF until
      <4>2. \A i \in Time : i > later => uses'[i] = 0
        BY <2>1, <2>8 DEF NoneAhead
      <4>3. /\ until - Span = later /\ StartAt(later) + Span <= until
            /\ until < StartAt(later) + Span + Span
        BY <3>2, <3>3, <4>1
      <4>. QED BY <3>1, <3>5, <4>2, <4>3 DEF LockInv
    <3>. QED BY <3>4, <3>5
  <2>. QED BY <2>8, <2>9 DEF ThrottleInv
<1>3. CASE PassLogin
  BY <1>0, <1>3, ForgettingIsSafe DEF PassLogin
<1>4. ASSUME NEW rows \in 1..MaxRows, Consume(rows) PROVE ThrottleInv'
  <2>1. /\ limiter = "STORED" /\ limiter' = limiter /\ now' = now /\ now \in Time
        /\ rows \in Nat \ {0} /\ Counted(now) + rows <= Limit
    BY <1>0, <1>4 DEF Consume, ThrottleTypeOK, Admits
  <2>2. /\ window' = [start |-> StartAt(now), count |-> Counted(now) + rows, until |-> 0]
        /\ Use(now, rows)
    BY <1>4 DEF Consume
  <2>3. ThrottleTypeOK' /\ WindowInv' /\ Bounded' /\ NoneAhead' /\ NoneKept'
    <3>1. now <= now /\ 0 \in Nat
      BY <2>1 DEF Time
    <3>. QED BY <2>1, <2>2, <3>1, UseKeepsWindow
  <2>. QED BY <2>1, <2>3 DEF ThrottleInv, LockInv
<1>5. CASE CountRequest
  <2>1. /\ limiter = "MEMORY" /\ limiter' = limiter /\ now' = now /\ now \in Time
        /\ Counted(now) < Limit
    BY <1>0, <1>5 DEF CountRequest, ThrottleTypeOK
  <2>2. /\ window' = [start |-> StartAt(now), count |-> Counted(now) + 1, until |-> 0]
        /\ Use(now, 1)
    BY <1>5 DEF CountRequest
  <2>3. Counted(now) + 1 <= Limit
    <3>1. Counted(now) \in Nat
      BY <1>0 DEF Counted, Expired, ThrottleTypeOK, WindowRecord
    <3>. QED BY <2>1, <3>1, LimitAssumption
  <2>4. ThrottleTypeOK' /\ WindowInv' /\ Bounded' /\ NoneAhead' /\ NoneKept'
    <3>1. now <= now /\ 0 \in Nat
      BY <2>1 DEF Time
    <3>. QED BY <2>1, <2>2, <2>3, <3>1, UseKeepsWindow
  <2>. QED BY <2>1, <2>4 DEF ThrottleInv, LockInv
<1>6. CASE Restart
  BY <1>0, <1>6, ForgettingIsSafe DEF Restart
<1>7. CASE UNCHANGED throttleVars
  BY <1>7 DEF throttleVars, ThrottleInv, ThrottleTypeOK, WindowInv, LockInv, Bounded, NoneAhead, NoneKept
<1>. QED BY <1>1, <1>2, <1>3, <1>4, <1>5, <1>6, <1>7 DEF ThrottleNext

\* What the limiters know of their windows holds in every state they reach.
THEOREM ThrottleInvariance == ThrottleSpec => []ThrottleInv
<1>. QED BY ThrottlesStart, ThrottlesStep, PTL DEF ThrottleSpec

\* The state of the limiters (loginAttempts, throttle records, buckets) keeps its types.
THEOREM ThrottleTypeCorrect == ThrottleSpec => []ThrottleTypeOK
<1>1. ThrottleInv => ThrottleTypeOK
  BY DEF ThrottleInv
<1>. QED BY <1>1, ThrottleInvariance, PTL

LEMMA UsesAreTotal == ASSUME NEW t PROVE UsesBefore(t) = Total(uses, Stretch(t))
BY Zenon DEF UsesBefore, Total, Stretch

\* Whatever the length of a window and its limit, no stretch of a window's length has more
\* uses than two windows allow without the first moment of the first; for logins, where
\* the last failure of a full window locks the account, one less
\* (recordFailedLoginAttempt, consume, enforceRateLimit).
THEOREM NeverMoreThanTwice == ThrottleSpec => []AtMostTwice
<1>1. ASSUME ThrottleInv PROVE AtMostTwice
  <2>. SUFFICES ASSUME NEW t \in Time
       PROVE UsesBefore(t) <= IF limiter = "LOGIN" /\ Limit > 1 THEN 2 * Limit - 2 ELSE 2 * Limit - 1
    BY DEF AtMostTwice
  <2>1. Total(uses, Stretch(t)) <= Slack(limiter) + Limit
    BY <1>1 DEF ThrottleInv, Bounded
  <2>2. Slack(limiter) + Limit = IF limiter = "LOGIN" /\ Limit > 1 THEN 2 * Limit - 2 ELSE 2 * Limit - 1
    BY LimitAssumption DEF Slack
  <2>. QED BY <2>1, <2>2, UsesAreTotal
<1>. QED BY <1>1, ThrottleInvariance, PTL

\* Who is locked out has failed as often as the limit says since the last right password,
\* within the length of a window (enforceLoginAttemptBackoff).
THEOREM LocksHaveCause == ThrottleSpec => []LockedForCause
<1>1. ASSUME ThrottleInv PROVE LockedForCause
  <2>. SUFFICES ASSUME limiter = "LOGIN", Locked(now)
       PROVE  UsesBefore(window.until - Span) >= Limit
    BY DEF LockedForCause
  <2>. DEFINE s == window.start
              x == window.until - Span
  <2>1. /\ window # NoWindow /\ window.until > now /\ now \in Nat
        /\ s \in Time /\ window.until \in Nat /\ uses \in [Time -> Nat]
    BY <1>1 DEF Locked, ThrottleInv, ThrottleTypeOK, WindowRecord, Time
  <2>2. /\ window.count \in 1..Limit /\ Total(uses, Since(s)) = window.count
        /\ \A i \in Time : i >= s + Span => uses[i] = 0 /\ s <= now /\ uses[s] >= 1
    BY <1>1, <2>1 DEF ThrottleInv, WindowInv
  <2>3. /\ window.count = Limit /\ s + Span <= window.until /\ window.until < s + Span + Span
        /\ \A i \in Time : i > x => uses[i] = 0
    BY <1>1, <2>1, <2>2, LimitAssumption DEF ThrottleInv, LockInv
  <2>. HIDE DEF s, x
  <2>4. x \in Int /\ s \in Int /\ s <= x /\ x < s + Span
    BY <2>1, <2>2, <2>3, LimitAssumption DEF s, x, Time
  <2>. DEFINE A == Since(s) \cap Stretch(x)
              B == Since(s) \ Stretch(x)
  <2>5. /\ Stretch(x) \in SUBSET Time /\ A \in SUBSET Stretch(x)
        /\ A \in SUBSET Time /\ B \in SUBSET Time /\ A \cup B = Since(s) /\ A \cap B = {}
    BY DEF Since, Stretch
  <2>6. \A i \in B : uses[i] = 0
    BY <2>3, <2>4, LimitAssumption DEF Since, Stretch, Time
  <2>. HIDE DEF A, B
  <2>7. Total(uses, A \cup B) = Total(uses, A) + Total(uses, B)
    BY <2>1, <2>5, TotalOfBoth
  <2>8. Total(uses, B) = 0
    BY <2>1, <2>5, <2>6, TotalOfNone
  <2>9. Total(uses, A) <= Total(uses, Stretch(x))
    BY <2>1, <2>5, TotalOfPart
  <2>10. Total(uses, A) \in Nat /\ Total(uses, Stretch(x)) \in Nat
    BY <2>1, <2>5, TotalIsUnits
  <2>11. Limit <= Total(uses, Stretch(x))
    BY <2>2, <2>3, <2>5, <2>7, <2>8, <2>9, <2>10
  <2>12. UsesBefore(x) >= Limit
    BY <2>10, <2>11, UsesAreTotal, LimitAssumption
  <2>. QED BY <2>12 DEF x
<1>. QED BY <1>1, ThrottleInvariance, PTL
=============================================================================
