------------------------------ MODULE Accounts ------------------------------
(***************************************************************************)
(* Users and organisations: registration and login                         *)
(* (src/modules/auth/mod.rs) behind the hash limit of Hashing, and the     *)
(* organisations and their members (src/modules/organization/mod.rs).      *)
(*                                                                         *)
(* Each statement is a step; only the creation of an organisation is a     *)
(* transaction.  A request may end at any point with what it wrote left    *)
(* behind: an error, a client that went away.  Passwords, tokens and the   *)
(* name, plan and settings of an organisation are left out.                *)
(***************************************************************************)
EXTENDS Hashing

CONSTANTS
  Address,      \* e-mail addresses
  Org,          \* organisations that may come to exist
  Invitation,   \* invite requests in progress at once
  NoUser

Role == {"owner", "admin", "accountant", "viewer"}
Managing == {"owner", "admin"}

ASSUME AccountsAssumption == NoUser \notin Address /\ Org # {}

VARIABLES
  users,        \* the addresses in the users table
  request,      \* register and login requests in progress
  welcomed,     \* history: how often registering an address was answered 201
  founder,      \* the owner_id of an organisation
  role,         \* the members table
  invitation    \* invite requests in progress

requestVars == <<users, request, welcomed>>
orgVars == <<founder, role, invitation>>
accountVars == <<hashVars, requestVars, orgVars>>

RequestRow == [op : {"none", "register", "insert", "login"},
               address : Address \cup {NoUser}]
InvitationRow == [pc : {"idle", "allowed", "found"}, org : Org,
                  invitee : Address \cup {NoUser}, role : Role]

NoRequest == [op |-> "none", address |-> NoUser]
NoInvitation == [pc |-> "idle", org |-> CHOOSE o \in Org : TRUE,
                 invitee |-> NoUser, role |-> "viewer"]

AccountsTypeOK ==
  /\ HashTypeOK
  /\ users \subseteq Address
  /\ request \in [Request -> RequestRow]
  /\ welcomed \in [Address -> Nat]
  /\ founder \in [Org -> Address \cup {NoUser}]
  /\ role \in [Org -> [Address -> Role \cup {"none"}]]
  /\ invitation \in [Invitation -> InvitationRow]

AccountsInit ==
  /\ HashInit
  /\ users = {}
  /\ request = [r \in Request |-> NoRequest]
  /\ welcomed = [a \in Address |-> 0]
  /\ founder = [o \in Org |-> NoUser]
  /\ role = [o \in Org |-> [a \in Address |-> "none"]]
  /\ invitation = [v \in Invitation |-> NoInvitation]

-----------------------------------------------------------------------------
(* POST /auth/register and /auth/login: the SELECT by address.  What is    *)
(* found is 409 for register, what is not is 401 for login.                *)
Arrive(r, a) ==
  /\ request[r].op = "none"
  /\ request' = [request EXCEPT
                   ![r] = [op |-> IF a \in users THEN "login" ELSE "register",
                           address |-> a]]
  /\ UNCHANGED <<hashVars, users, welcomed, orgVars>>

Selected(r) ==
  request[r].op \in {"register", "login"} /\ ~Queued(r) /\ r \notin holding

AskPermit(r) ==
  /\ Selected(r)
  /\ Acquire(r)
  /\ UNCHANGED <<requestVars, orgVars>>

GetPermit(r) ==
  /\ StartHash(r)
  /\ UNCHANGED <<requestVars, orgVars>>

(* verify returns, and login with it; register goes on to its INSERT. *)
Hashed(r) ==
  /\ EndHash(r)
  /\ request' = [request EXCEPT
                   ![r] = IF @.op = "login" THEN NoRequest
                          ELSE [@ EXCEPT !.op = "insert"]]
  /\ UNCHANGED <<users, welcomed, orgVars>>

(* Mutant: no UNIQUE (email). *)
InsertAny(r) ==
  LET a == request[r].address IN
  /\ request[r].op = "insert"
  /\ users' = users \cup {a}
  /\ welcomed' = [welcomed EXCEPT ![a] = @ + 1]
  /\ request' = [request EXCEPT ![r] = NoRequest]
  /\ UNCHANGED <<hashVars, orgVars>>

(* The INSERT: 201, or a violation of UNIQUE (email), answered 500. *)
InsertUser(r) ==
  LET a == request[r].address IN
  /\ request[r].op = "insert"
  /\ users' = users \cup {a}
  /\ welcomed' = [welcomed EXCEPT ![a] = IF a \in users THEN @ ELSE @ + 1]
  /\ request' = [request EXCEPT ![r] = NoRequest]
  /\ UNCHANGED <<hashVars, orgVars>>

(* The request ends early: before the queue, in it, with its permit, or    *)
(* later.  Its INSERT may have been carried out all the same.              *)
DropRequest(r) ==
  /\ request[r].op # "none"
  /\ request' = [request EXCEPT ![r] = NoRequest]
  /\ \/ LeaveQueue(r) /\ UNCHANGED users
     \/ DropHash(r) /\ UNCHANGED users
     \/ Selected(r) /\ UNCHANGED <<hashVars, users>>
     \/ /\ request[r].op = "insert"
        /\ users' \in {users, users \cup {request[r].address}}
        /\ UNCHANGED hashVars
  /\ UNCHANGED <<welcomed, orgVars>>

OrphanEnds == EndOrphan /\ UNCHANGED <<requestVars, orgVars>>

-----------------------------------------------------------------------------
(* Mutant: the two INSERTs are not one transaction. *)
CreateOrgAlone(o, a) ==
  /\ founder[o] = NoUser
  /\ a \in users
  /\ founder' = [founder EXCEPT ![o] = a]
  /\ role' \in {role, [role EXCEPT ![o][a] = "owner"]}
  /\ UNCHANGED <<hashVars, requestVars, invitation>>

(* POST /organizations: one transaction, and nothing if it fails. *)
CreateOrg(o, a) ==
  /\ founder[o] = NoUser
  /\ a \in users
  /\ founder' = [founder EXCEPT ![o] = a]
  /\ role' = [role EXCEPT ![o][a] = "owner"]
  /\ UNCHANGED <<hashVars, requestVars, invitation>>

(* POST /organizations/{id}/invite: the role of whoever asks ... *)
Invitable == {"admin", "accountant", "viewer"}

Invite(v, o, by, a, new) ==
  /\ invitation[v].pc = "idle"
  /\ role[o][by] \in Managing
  /\ new \in Invitable
  /\ invitation' = [invitation EXCEPT
                      ![v] = [pc |-> "allowed", org |-> o, invitee |-> a, role |-> new]]
  /\ UNCHANGED <<hashVars, requestVars, founder, role>>

(* ... the user with the address, or 404 ... *)
FindInvitee(v) ==
  /\ invitation[v].pc = "allowed"
  /\ invitation' = [invitation EXCEPT
                      ![v] = IF @.invitee \in users THEN [@ EXCEPT !.pc = "found"]
                                                    ELSE NoInvitation]
  /\ UNCHANGED <<hashVars, requestVars, founder, role>>

(* ... and INSERT ... ON CONFLICT DO UPDATE, whatever the role was. *)
SetRole(v) ==
  LET x == invitation[v] IN
  /\ x.pc = "found"
  /\ role' = [role EXCEPT ![x.org][x.invitee] = x.role]
  /\ invitation' = [invitation EXCEPT ![v] = NoInvitation]
  /\ UNCHANGED <<hashVars, requestVars, founder>>

InviteFails(v) ==
  /\ invitation[v].pc # "idle"
  /\ invitation' = [invitation EXCEPT ![v] = NoInvitation]
  /\ UNCHANGED <<hashVars, requestVars, founder, role>>

AccountsNext ==
  \/ \E r \in Request : \/ \E a \in Address : Arrive(r, a)
                        \/ AskPermit(r) \/ GetPermit(r) \/ Hashed(r) \/ InsertUser(r)
                        \/ DropRequest(r)
  \/ OrphanEnds
  \/ \E o \in Org, a \in Address : CreateOrg(o, a)
  \/ \E v \in Invitation :
       \/ \E o \in Org, by, a \in Address, new \in Invitable : Invite(v, o, by, a, new)
       \/ FindInvitee(v) \/ SetRole(v) \/ InviteFails(v)

AccountsSpec == AccountsInit /\ [][AccountsNext]_accountVars

-----------------------------------------------------------------------------
(* Whoever holds a permit, or a place in the queue for one, is a request   *)
(* on its way to a hash: wherever a request ends or is dropped, it leaves  *)
(* neither behind.  Otherwise every dropped request would cost a permit,   *)
(* until nobody could register or log in any more.                         *)
NoPermitLeaked ==
  \A r \in holding \cup ToSet(waiting) : request[r].op \in {"register", "login"}

(* However many requests register an address at once, all past the SELECT  *)
(* before the first INSERT, at most one of them is told it has succeeded.  *)
OneWelcomePerAddress == \A a \in Address : welcomed[a] <= IF a \in users THEN 1 ELSE 0

(* An organisation has the member who founded it, who may have lost the    *)
(* role to an invitation but not the seat, and no other owner.             *)
FounderKeepsSeat ==
  \A o \in Org :
    /\ founder[o] # NoUser => role[o][founder[o]] # "none"
    /\ \A a \in Address : role[o][a] = "owner" => a = founder[o]
=============================================================================
