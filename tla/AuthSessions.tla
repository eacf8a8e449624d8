----------------------------- MODULE AuthSessions -----------------------------
(***************************************************************************)
(* Users, memberships, sessions and reset tokens of one tenant             *)
(* (src/src/api.ts, the /api/auth requests; src/src/repositories.ts).      *)
(*                                                                         *)
(* A request is authenticated before its body is read: its principal, with *)
(* the role of that moment, waits in `requests' while others are served.   *)
(* A handler that has its body is not interrupted, but it makes several    *)
(* writes, each of the whole store, and a crash or a failed write can end  *)
(* it at any of them.  A write that fails leaves the change in memory, and *)
(* the next that succeeds saves it too; a process that starts again has    *)
(* what is in the file.  Login, reset request and reset confirmation have  *)
(* no principal.                                                           *)
(***************************************************************************)
EXTENDS Naturals, FiniteSets

CONSTANTS
  User, Workspace, SessionId, TokenId, Request,
  InitialMember,   \* [User -> [Workspace -> Membership or NoMember]]
  Asked,           \* the memberships that requests ask for
  NoMember, NoSession, NoToken, Idle,
  MaxVersion,      \* bound on the changes to credentials
  MaxEdits,        \* bound on the changes to memberships
  MaxFaults        \* bound on crashes and failed writes

Role == {"OWNER", "ADMIN", "EDITOR", "VIEWER"}
Membership == [role : Role, status : {"ACTIVE", "SUSPENDED"}]
\* version is the number of the last change to the credential, its removal included.
Account == [status : {"ACTIVE", "DISABLED"}, credential : BOOLEAN, version : 0..MaxVersion]
\* born is the version of the user's credential when the session was opened.
Session == [user : User, workspace : Workspace, born : 0..MaxVersion,
            state : {"LIVE", "REVOKED", "EXPIRED"}]
Token == [user : User, workspace : Workspace, state : {"OPEN", "USED", "EXPIRED"}]
Route == {"PASSWORD", "USERS", "USER_PASSWORD", "MEMBERSHIPS", "SESSIONS"}
Principal == [user : User, workspace : Workspace, role : Role]
Waiting == [route : Route, principal : Principal, session : SessionId]

ASSUME MemberAssumption ==
  /\ InitialMember \in [User -> [Workspace -> Membership \union {NoMember}]]
  /\ Asked \subseteq Membership
ASSUME SentinelAssumption ==
  /\ NoMember \notin Membership /\ NoSession \notin Session
  /\ NoToken \notin Token /\ Idle \notin Waiting
ASSUME BoundAssumption == MaxVersion \in Nat /\ MaxEdits \in Nat /\ MaxFaults \in Nat

VARIABLES
  users,      \* [User -> Account]
  members,    \* the membership of a user in a workspace, or NoMember
  sessions,   \* the session of an id, or NoSession
  tokens,     \* the reset token of an id, or NoToken
  disk,       \* the file: users, memberships, sessions and tokens as they were written last
  requests,   \* authenticated requests that wait for their bodies, or Idle
  changes, edits, faults,   \* how often credentials and memberships changed; crashes and failed writes
  swept,      \* history: the version a user had when a workspace's sessions were last all revoked
  ended,      \* history: sessions whose revocation was answered
  resets      \* history: how many credentials were set with a token

counters == <<changes, edits>>
history == <<swept, ended, resets>>
vars == <<users, members, sessions, tokens, disk, requests, counters, faults, history>>

-----------------------------------------------------------------------------
Exists(s) == sessions[s] # NoSession
Live(s) == Exists(s) /\ sessions[s].state = "LIVE"
\* (mutant) The session that a request came with is spared.
LiveInButWaiting(u, w) ==
  {s \in SessionId : /\ Live(s) /\ sessions[s].user = u /\ sessions[s].workspace = w
                     /\ \A r \in Request : requests[r] # Idle => requests[r].session # s}

LiveIn(u, w) == {s \in SessionId : Live(s) /\ sessions[s].user = u /\ sessions[s].workspace = w}

\* isActiveAuthSubject
ActiveSubject(u, w) ==
  /\ users[u].status = "ACTIVE"
  /\ members[u][w] # NoMember
  /\ members[u][w].status = "ACTIVE"

\* sessionPrincipalFromToken: whom the token of session s stands for.
Authentic(s) == Live(s) /\ ActiveSubject(sessions[s].user, sessions[s].workspace)
PrincipalOf(s) ==
  LET u == sessions[s].user  w == sessions[s].workspace
  IN  [user |-> u, workspace |-> w, role |-> members[u][w].role]

\* What a write puts into the file.
Memory == [users |-> users, members |-> members, sessions |-> sessions, tokens |-> tokens]

\* The session that was found is saved with its lastSeenAt before anything else is read
\* or changed: as it was, and the whole store with it.
Sighted == Memory

Fault == faults < MaxFaults /\ faults' = faults + 1

\* A handler with one write, which succeeds, or fails and leaves the file as it was before.
Written == disk' = Memory' /\ UNCHANGED faults
Unwritten(before) == disk' = before /\ Fault

Manages(p) == p.role \in {"OWNER", "ADMIN"}
Owns(p) == p.role = "OWNER"

NewSession(u, w) ==
  [user |-> u, workspace |-> w, born |-> users[u].version, state |-> "LIVE"]
Revoked(gone) ==
  [s \in SessionId |-> IF s \in gone THEN [sessions[s] EXCEPT !.state = "REVOKED"] ELSE sessions[s]]
Changed(u, account) ==
  /\ changes < MaxVersion
  /\ changes' = changes + 1
  /\ users' = [users EXCEPT ![u] = account]

\* The request leaves: it was answered.
Without(r) == [q \in Request |-> IF q = r THEN Idle ELSE requests[q]]
Leave(r) == requests' = Without(r)

\* The file after a write for the change of a credential failed: for the credential, for one
\* of the sessions revoked so far, or, all of them being revoked, for the audit event.
FileCutShort(u, w, gone, before) ==
  \/ gone = {} /\ disk' = before
  \/ \E s \in gone : disk' = [Memory' EXCEPT !.sessions = Revoked(gone \ {s})]
  \/ gone = LiveIn(u, w) /\ disk' = Memory'

\* upsertUser with a new credential, then listSessions and revokeSession for each live
\* session of the user in this workspace, each a write.  `gone' are the sessions revoked
\* by the end, which may be a crash between two writes or a write that fails.
SetCredential(u, w, gone, r, before) ==
  /\ Changed(u, [users[u] EXCEPT !.credential = TRUE, !.version = changes + 1])
  /\ gone \subseteq LiveIn(u, w)
  /\ sessions' = Revoked(gone)
  /\ \/ /\ gone = LiveIn(u, w)
        /\ swept' = [swept EXCEPT ![u][w] = changes + 1]
        /\ ended' = ended \union gone
        /\ Leave(r) /\ Written
     \/ /\ Fault
        /\ UNCHANGED <<swept, ended>>
        /\ \/ requests' = [q \in Request |-> Idle] /\ disk' = Memory'
           \/ Leave(r) /\ FileCutShort(u, w, gone, before)

-----------------------------------------------------------------------------
Init ==
  /\ users = [u \in User |-> [status |-> "ACTIVE", credential |-> TRUE, version |-> 0]]
  /\ members = InitialMember
  /\ sessions = [s \in SessionId |-> NoSession]
  /\ tokens = [t \in TokenId |-> NoToken]
  /\ requests = [r \in Request |-> Idle]
  /\ changes = 0 /\ edits = 0 /\ faults = 0
  /\ disk = Memory
  /\ swept = [u \in User |-> [w \in Workspace |-> 0]]
  /\ ended = {}
  /\ resets = [t \in TokenId |-> 0]

\* POST /api/auth/login with the right password.  (Here and below, nobody is told of a
\* session or a token whose own write failed: it is left out.)
Login(u, w, s) ==
  /\ ~Exists(s)
  /\ ActiveSubject(u, w) /\ users[u].credential
  /\ sessions' = [sessions EXCEPT ![s] = NewSession(u, w)]
  /\ UNCHANGED <<users, members, tokens, requests, counters, history>>
  /\ Written

\* (mutant) The error of a write that fails is not passed on.
RevokeInMemory(s) ==
  /\ sessions' = Revoked({s})
  /\ UNCHANGED <<users, members, tokens, requests, counters, swept, resets>>
  /\ Written \/ Unwritten(Sighted)
  /\ ended' = ended \union {s}

\* A session is revoked by a request that was sighted; the answer says so if that is saved,
\* and then its audit event.
Revoke(s) ==
  /\ sessions' = Revoked({s})
  /\ UNCHANGED <<users, members, tokens, requests, counters, swept, resets>>
  /\ \/ Written /\ ended' = ended \union {s}
     \/ (Unwritten(Sighted) \/ Unwritten(Memory')) /\ UNCHANGED ended

\* DELETE /api/auth/session
Logout(s) == Authentic(s) /\ Revoke(s)

\* DELETE /api/auth/sessions/:id: the repository lets an actor revoke sessions of its own
\* user and workspace only, dead ones too.
RevokeSession(s, other) ==
  /\ Authentic(s) /\ Manages(PrincipalOf(s)) /\ Exists(other)
  /\ sessions[other].user = sessions[s].user
  /\ sessions[other].workspace = sessions[s].workspace
  /\ Revoke(other)

\* POST /api/auth/password-reset-requests, for a user who is eligible
RequestReset(u, w, t) ==
  /\ tokens[t] = NoToken
  /\ ActiveSubject(u, w) /\ users[u].credential
  /\ tokens' = [tokens EXCEPT ![t] = [user |-> u, workspace |-> w, state |-> "OPEN"]]
  /\ UNCHANGED <<users, members, sessions, requests, counters, history>>
  /\ Written

\* consumeValidPasswordResetToken
Consumable(t) == tokens[t] # NoToken /\ tokens[t].state = "OPEN"
Consumed(t) == [tokens EXCEPT ![t].state = "USED"]

\* (mutant) The token is marked used at the end, when the request was not cut short.
ConfirmResetMarkingLast(t, gone) ==
  /\ Consumable(t)
  /\ ActiveSubject(tokens[t].user, tokens[t].workspace)
  /\ tokens' \in {tokens, Consumed(t)}
  /\ resets' = [resets EXCEPT ![t] = @ + 1]
  /\ UNCHANGED <<members, edits>>
  /\ SetCredential(tokens[t].user, tokens[t].workspace, gone, Idle, Memory)
  /\ tokens' = IF faults' = faults THEN Consumed(t) ELSE tokens

\* POST /api/auth/password-reset: the token is used up and saved as such, then the credential
\* is set and the sessions are revoked.  No request waits here: a body comes before everything.
ConfirmReset(t, gone) ==
  /\ Consumable(t)
  /\ ActiveSubject(tokens[t].user, tokens[t].workspace)
  /\ tokens' = Consumed(t)
  /\ resets' = [resets EXCEPT ![t] = @ + 1]
  /\ UNCHANGED <<members, edits>>
  /\ SetCredential(tokens[t].user, tokens[t].workspace, gone, Idle, [Memory EXCEPT !.tokens = Consumed(t)])

\* The same, when it ends before the credential is set: the user is not active any more, the
\* token could not be saved as used, or the process died when it was.
WasteToken(t) ==
  /\ Consumable(t)
  /\ tokens' = Consumed(t)
  /\ UNCHANGED <<users, members, sessions, counters, history>>
  /\ \/ /\ ~ActiveSubject(tokens[t].user, tokens[t].workspace)
        /\ Written /\ UNCHANGED requests
     \/ Unwritten(disk) /\ UNCHANGED requests
     \/ Unwritten(Memory') /\ requests' = [q \in Request |-> Idle]

\* authenticate, and what is refused before the body is read; the request is sighted.
Receive(r, s, route) ==
  /\ requests[r] = Idle
  /\ Authentic(s)
  /\ route = "PASSWORD" \/ PrincipalOf(s).role # "VIEWER"
  /\ route = "USERS" => Manages(PrincipalOf(s))
  /\ requests' = [requests EXCEPT ![r] = [route |-> route, principal |-> PrincipalOf(s), session |-> s]]
  /\ disk' = Sighted
  /\ UNCHANGED <<users, members, sessions, tokens, counters, faults, history>>

\* The body has come, and the handler of the route goes on with the principal of then.
Resumes(r, route) == requests[r] # Idle /\ requests[r].route = route

\* POST /api/auth/password: the user is read again; the current password is the right one
ChangePassword(r, gone) ==
  LET p == requests[r].principal
  IN  /\ Resumes(r, "PASSWORD")
      /\ users[p.user].status = "ACTIVE" /\ users[p.user].credential
      /\ UNCHANGED <<members, tokens, edits, resets>>
      /\ SetCredential(p.user, p.workspace, gone, r, disk)

\* POST /api/auth/users: the whole user is replaced; without a credential in the body
\* the user has none.
PutUser(r, u, status, credential) ==
  /\ Resumes(r, "USERS")
  /\ Changed(u, [status |-> status, credential |-> credential, version |-> changes + 1])
  /\ Leave(r)
  /\ UNCHANGED <<members, sessions, tokens, edits, history>>
  /\ Written \/ Unwritten(disk)

\* POST /api/auth/users/:id/password, for a member of the principal's workspace
ResetPassword(r, u, gone) ==
  LET p == requests[r].principal
  IN  /\ Resumes(r, "USER_PASSWORD")
      /\ Manages(p) /\ members[u][p.workspace] # NoMember
      /\ members[u][p.workspace].role \in {"OWNER", "ADMIN"} => Owns(p)
      /\ UNCHANGED <<members, tokens, edits, resets>>
      /\ SetCredential(u, p.workspace, gone, r, disk)

\* POST /api/auth/memberships
PutMembership(r, u, membership) ==
  LET p == requests[r].principal
  IN  /\ Resumes(r, "MEMBERSHIPS")
      /\ edits < MaxEdits /\ edits' = edits + 1
      /\ Manages(p)
      /\ membership.role \in {"OWNER", "ADMIN"} => Owns(p)
      /\ members' = [members EXCEPT ![u][p.workspace] = membership]
      /\ Leave(r)
      /\ UNCHANGED <<users, sessions, tokens, changes, history>>
      /\ Written \/ Unwritten(disk)

\* POST /api/auth/sessions, for the principal's own scope
CreateSession(r, s) ==
  LET p == requests[r].principal
  IN  /\ Resumes(r, "SESSIONS")
      /\ ~Exists(s)
      /\ ActiveSubject(p.user, p.workspace)
      /\ sessions' = [sessions EXCEPT ![s] = NewSession(p.user, p.workspace)]
      /\ Leave(r)
      /\ UNCHANGED <<users, members, tokens, counters, history>>
      /\ Written

\* The body is refused or never comes.
Refuse(r) ==
  /\ requests[r] # Idle
  /\ Leave(r)
  /\ UNCHANGED <<users, members, sessions, tokens, disk, counters, faults, history>>

\* What has an end has it in the file as well.
ExpiredIn(entries, none, x, state) ==
  IF entries[x] # none /\ entries[x].state = state
    THEN [entries EXCEPT ![x].state = "EXPIRED"] ELSE entries
TimePasses ==
  /\ \/ \E s \in SessionId :
          /\ sessions' = ExpiredIn(sessions, NoSession, s, "LIVE")
          /\ disk' = [disk EXCEPT !.sessions = ExpiredIn(@, NoSession, s, "LIVE")]
          /\ UNCHANGED tokens
     \/ \E t \in TokenId :
          /\ tokens' = ExpiredIn(tokens, NoToken, t, "OPEN")
          /\ disk' = [disk EXCEPT !.tokens = ExpiredIn(@, NoToken, t, "OPEN")]
          /\ UNCHANGED sessions
  /\ UNCHANGED <<users, members, requests, counters, faults, history>>

\* The process dies with the requests that wait, and starts again with the file.
Crash ==
  /\ Fault
  /\ users' = disk.users /\ members' = disk.members
  /\ sessions' = disk.sessions /\ tokens' = disk.tokens
  /\ requests' = [r \in Request |-> Idle]
  /\ UNCHANGED <<disk, counters, history>>

Next ==
  \/ \E u \in User, w \in Workspace, s \in SessionId : Login(u, w, s)
  \/ \E s \in SessionId : Logout(s)
  \/ \E s, other \in SessionId : RevokeSession(s, other)
  \/ \E u \in User, w \in Workspace, t \in TokenId : RequestReset(u, w, t)
  \/ \E t \in TokenId, gone \in SUBSET SessionId : ConfirmReset(t, gone)
  \/ \E t \in TokenId : WasteToken(t)
  \/ \E r \in Request, s \in SessionId, route \in Route : Receive(r, s, route)
  \/ \E r \in Request, gone \in SUBSET SessionId : ChangePassword(r, gone)
  \/ \E r \in Request, u \in User, status \in {"ACTIVE", "DISABLED"}, c \in BOOLEAN : PutUser(r, u, status, c)
  \/ \E r \in Request, u \in User, gone \in SUBSET SessionId : ResetPassword(r, u, gone)
  \/ \E r \in Request, u \in User, membership \in Asked : PutMembership(r, u, membership)
  \/ \E r \in Request, s \in SessionId : CreateSession(r, s)
  \/ \E r \in Request : Refuse(r)
  \/ TimePasses \/ Crash

Spec == Init /\ [][Next]_vars

-----------------------------------------------------------------------------
\* Users, memberships, sessions and tokens as they may be in memory and in the file.
Store == [users : [User -> Account],
          members : [User -> [Workspace -> Membership \union {NoMember}]],
          sessions : [SessionId -> Session \union {NoSession}],
          tokens : [TokenId -> Token \union {NoToken}]]

\* The state keeps its shape.
TypeOK ==
  /\ Memory \in Store /\ disk \in Store
  /\ requests \in [Request -> Waiting \union {Idle}]
  /\ changes \in 0..MaxVersion /\ edits \in 0..MaxEdits /\ faults \in 0..MaxFaults
  /\ swept \in [User -> [Workspace -> 0..MaxVersion]]
  /\ ended \subseteq SessionId /\ resets \in [TokenId -> Nat]
  /\ \A s \in SessionId : Exists(s) => sessions[s].born <= users[sessions[s].user].version

\* When the password of a user was set by a reset, a change or an administrator, and the
\* request ran to its end, no session that was opened before it in that workspace is alive,
\* whatever was waiting meanwhile and whatever other requests were cut short.
RotationEndsSessions ==
  \A s \in SessionId :
    Live(s) => sessions[s].born >= swept[sessions[s].user][sessions[s].workspace]

\* A reset token sets at most one password: it is saved as used before the password is set,
\* so that no crash and no failed write lets it be used again.
OneResetPerToken == \A t \in TokenId : resets[t] <= 1

\* A session whose revocation was answered, by a logout, a revocation or a completed change
\* of a password, is revoked for good, in memory and in the file: no request that was
\* authenticated before, no write that fails and no restart brings it back, although every
\* authenticated request saves the session it came with.
AnsweredRevocationsHold ==
  \A s \in ended :
    /\ Exists(s) /\ sessions[s].state = "REVOKED"
    /\ disk.sessions[s] # NoSession /\ disk.sessions[s].state = "REVOKED"
===============================================================================
