--------------------------- MODULE AccountsProofs ---------------------------
(***************************************************************************)
(* Theorems about Hashing and Accounts, for any requests, permits,         *)
(* addresses and organisations.  The hash limit has an invariant of its    *)
(* own, kept by each of its operations whoever uses them; users and        *)
(* members have one each that rests on nothing but the types.              *)
(***************************************************************************)
EXTENDS Accounts, FiniteSetTheorems, SequenceTheorems, TLAPS

(* The requests that hold a permit or wait for one. *)
Using == holding \cup ToSet(waiting)

HashInv ==
  /\ HashTypeOK
  /\ IsFiniteSet(holding)
  /\ Cardinality(holding) <= Permits
  /\ NoIdlePermit

-----------------------------------------------------------------------------
LEMMA HashInitial == HashInit => HashInv
<1> SUFFICES ASSUME HashInit PROVE HashInv
  OBVIOUS
<1>1. IsFiniteSet(holding) /\ Cardinality(holding) = 0
  BY FS_EmptySet DEF HashInit
<1>2. waiting \in Seq(Request) /\ IsInjective(waiting) /\ ToSet(waiting) \cap holding = {}
  BY DEF HashInit, IsInjective, ToSet
<1> QED BY <1>1, <1>2, HashingAssumption
        DEF HashInv, HashTypeOK, HashInit, NoIdlePermit, HashingAssumption

(* A permit taken or a place in the queue.                                 *)
LEMMA AcquireKeeps ==
  ASSUME HashInv, NEW r \in Request, ~Queued(r), r \notin holding, Acquire(r)
  PROVE  HashInv' /\ Using' \subseteq Using \cup {r}
<1> USE DEF HashInv, HashTypeOK, NoIdlePermit
<1>0. \A n \in DOMAIN waiting : waiting[n] # r
  BY DEF Queued, Contains
<1>1. Cardinality(holding) \in Nat
  BY FS_CardinalityType
<1>2. CASE Cardinality(holding) < Permits
  <2>1. holding' = holding \cup {r} /\ UNCHANGED <<waiting, running, orphans>>
    BY <1>2 DEF Acquire
  <2>2. /\ IsFiniteSet(holding')
        /\ Cardinality(holding') = Cardinality(holding) + 1
    BY <2>1, FS_AddElement
  <2>3. waiting = <<>>
    BY <1>1, <1>2, HashingAssumption DEF HashingAssumption
  <2>4. ToSet(waiting)' \cap holding' = {} /\ IsInjective(waiting)'
    BY <2>1, <2>3, <1>0 DEF ToSet, IsInjective
  <2>5. HashInv'
    BY <1>1, <1>2, <2>1, <2>2, <2>3, <2>4, HashingAssumption DEF HashingAssumption
  <2> QED BY <2>1, <2>5 DEF Using, ToSet
<1>3. CASE ~(Cardinality(holding) < Permits)
  <2>1. waiting' = Append(waiting, r) /\ UNCHANGED <<holding, running, orphans>>
    BY <1>3 DEF Acquire
  <2>2. Cardinality(holding) = Permits
    BY <1>1, <1>3, HashingAssumption DEF HashingAssumption
  <2>3. /\ waiting' \in Seq(Request)
        /\ Len(waiting') = Len(waiting) + 1
        /\ \A i \in 1..Len(waiting) : waiting'[i] = waiting[i]
        /\ waiting'[Len(waiting) + 1] = r
    BY <2>1, AppendProperties
  <2>4. IsInjective(waiting)'
    BY <2>3, <1>0 DEF IsInjective
  <2>5. ToSet(waiting)' \cap holding' = {}
    BY <2>1, <2>3 DEF ToSet
  <2>6. HashInv'
    BY <2>1, <2>2, <2>3, <2>4, <2>5
  <2> QED BY <2>1, <2>3, <2>6 DEF Using, ToSet
<1> QED BY <1>2, <1>3

(* A permit handed on to the head of the queue, or given back.             *)
LEMMA ReleaseKeeps ==
  ASSUME HashInv, NEW r \in holding, Release(r)
  PROVE  /\ waiting' \in Seq(Request) /\ holding' \subseteq Request
         /\ holding \ {r} \subseteq holding'
         /\ IsFiniteSet(holding') /\ Cardinality(holding') <= Permits
         /\ NoIdlePermit'
         /\ Using' \subseteq Using \ {r}
<1> USE DEF HashInv, HashTypeOK, NoIdlePermit
<1>1. /\ IsFiniteSet(holding \ {r})
      /\ Cardinality(holding \ {r}) = Cardinality(holding) - 1
      /\ Cardinality(holding) \in Nat
  BY FS_RemoveElement, FS_CardinalityType
<1>2. CASE waiting = <<>>
  <2>1. holding' = holding \ {r} /\ waiting' = <<>>
    BY <1>2 DEF Release
  <2>2. IsInjective(waiting)' /\ ToSet(waiting)' = {}
    BY <2>1 DEF IsInjective, ToSet
  <2>3. Using' \subseteq Using \ {r}
    BY <2>1, <2>2 DEF Using
  <2> QED BY <1>1, <2>1, <2>2, <2>3, HashingAssumption DEF HashingAssumption
<1>3. CASE waiting # <<>>
  <2> DEFINE h == Head(waiting)
  <2>1. holding' = (holding \ {r}) \cup {h} /\ waiting' = Tail(waiting)
    BY <1>3 DEF Release
  <2>2. /\ h \in Request /\ waiting' \in Seq(Request)
        /\ Len(waiting') = Len(waiting) - 1
        /\ \A i \in 1..Len(waiting') : waiting'[i] = waiting[i + 1]
    BY <1>3, <2>1, HeadTailProperties
  <2>3. h = waiting[1] /\ 1 \in DOMAIN waiting
    BY <1>3
  <2>4. h \notin holding
    BY <2>3 DEF ToSet
  <2>5. /\ IsFiniteSet(holding')
        /\ Cardinality(holding') = Cardinality(holding)
    <3> DEFINE kept == holding \ {r}
    <3>1. h \notin kept /\ IsFiniteSet(kept) /\ holding' = kept \cup {h}
      BY <1>1, <2>1, <2>4
    <3> HIDE DEF kept, h
    <3>2. /\ IsFiniteSet(kept \cup {h})
          /\ Cardinality(kept \cup {h}) = Cardinality(kept) + 1
      BY <3>1, FS_AddElement
    <3>3. Cardinality(kept) = Cardinality(holding) - 1
      BY <1>1 DEF kept
    <3> QED BY <1>1, <3>1, <3>2, <3>3
  <2>6. Cardinality(holding') = Permits
    BY <1>3, <2>5
  <2>7. IsInjective(waiting)'
    <3>1. ASSUME NEW i \in DOMAIN waiting', NEW j \in DOMAIN waiting',
                 waiting'[i] = waiting'[j]
          PROVE  i = j
      <4>1. /\ i \in Nat /\ j \in Nat
            /\ i + 1 \in DOMAIN waiting /\ j + 1 \in DOMAIN waiting
        BY <2>2
      <4>2. waiting[i + 1] = waiting[j + 1]
        BY <2>2, <3>1
      <4>3. i + 1 = j + 1
        BY <4>1, <4>2 DEF IsInjective
      <4>4. QED
        BY <4>1, <4>3
    <3>2. QED
      BY <3>1 DEF IsInjective
  <2>8. ToSet(waiting)' \cap holding' = {}
    <3>1. \A i \in DOMAIN waiting' : waiting'[i] \notin holding
      BY <2>2 DEF ToSet
    <3>2. \A i \in DOMAIN waiting' : waiting'[i] # h
      BY <2>2, <2>3 DEF IsInjective
    <3> QED BY <2>1, <3>1, <3>2 DEF ToSet
  <2>9. Using' \subseteq Using \ {r}
    <3>1. \A i \in DOMAIN waiting : waiting[i] # r
      BY DEF ToSet
    <3> QED BY <2>1, <2>2, <2>3, <3>1 DEF Using, ToSet
  <2> QED BY <2>1, <2>2, <2>5, <2>6, <2>7, <2>8, <2>9, HashingAssumption
          DEF HashingAssumption
<1> QED BY <1>2, <1>3

(* A place in the queue given up: the others close ranks.                  *)
LEMMA LeaveKeeps ==
  ASSUME HashInv, NEW r \in Request, LeaveQueue(r)
  PROVE  HashInv' /\ Using' \subseteq Using \ {r}
<1> USE DEF HashInv, HashTypeOK, NoIdlePermit
<1>1. PICK n \in DOMAIN waiting : waiting[n] = r /\ waiting' = RemoveAt(waiting, n)
  BY DEF LeaveQueue
<1>2. n \in 1..Len(waiting) /\ Len(waiting) \in Nat
  BY <1>1
<1> DEFINE low == SubSeq(waiting, 1, n - 1)
           high == SubSeq(waiting, n + 1, Len(waiting))
<1>3. \A i \in 1..Len(waiting) : waiting[i] \in Request
  OBVIOUS
<1>4. /\ low \in Seq(Request) /\ Len(low) = n - 1
      /\ \A i \in 1..n - 1 : low[i] = waiting[i]
  BY <1>2, <1>3, SubSeqProperties
<1>5. /\ high \in Seq(Request) /\ Len(high) = Len(waiting) - n
      /\ \A i \in 1..Len(waiting) - n : high[i] = waiting[n + i]
  BY <1>2, <1>3, SubSeqProperties
<1>6. waiting' = low \o high
  BY <1>1 DEF RemoveAt
<1> HIDE DEF low, high
<1>7. /\ waiting' \in Seq(Request) /\ Len(waiting') = Len(waiting) - 1
      /\ \A i \in 1..Len(waiting) - 1 :
           waiting'[i] = IF i <= n - 1 THEN waiting[i] ELSE waiting[i + 1]
  BY <1>2, <1>4, <1>5, <1>6, ConcatProperties
<1>8. IsInjective(waiting)'
  <2>1. ASSUME NEW i \in 1..Len(waiting) - 1, NEW j \in 1..Len(waiting) - 1,
               waiting'[i] = waiting'[j]
        PROVE  i = j
    <3> DEFINE at(k) == IF k <= n - 1 THEN k ELSE k + 1
    <3>1. \A k \in 1..Len(waiting) - 1 :
            at(k) \in 1..Len(waiting) /\ waiting'[k] = waiting[at(k)]
      BY <1>2, <1>7
    <3>2. waiting[at(i)] = waiting[at(j)]
      BY <2>1, <3>1
    <3>3. at(i) = at(j)
      <4> HIDE DEF at
      <4> QED BY <3>1, <3>2 DEF IsInjective
    <3> QED BY <1>2, <3>3
  <2>2. DOMAIN waiting' = 1..Len(waiting) - 1
    BY <1>7
  <2> QED BY <2>1, <2>2 DEF IsInjective
<1>9. ToSet(waiting)' \subseteq ToSet(waiting)
  BY <1>2, <1>7 DEF ToSet
<1>10. waiting # <<>>
  BY <1>2
<1>11. r \notin ToSet(waiting)'
  <2>1. ASSUME NEW i \in DOMAIN waiting' PROVE waiting'[i] # r
    <3>1. PICK k \in 1..Len(waiting) : waiting'[i] = waiting[k] /\ k # n
      BY <1>2, <1>7
    <3>2. QED
      BY <1>1, <1>2, <3>1 DEF IsInjective
  <2> QED BY <2>1 DEF ToSet
<1>12. r \notin holding
  BY <1>1 DEF ToSet
<1> QED BY <1>7, <1>8, <1>9, <1>10, <1>11, <1>12 DEF LeaveQueue, Using

-----------------------------------------------------------------------------
(* What a request or an invitation in progress is about. *)
RequestFits(r) == request[r].op # "none" => request[r].address \in Address
InvitationFits(v) ==
  invitation[v].pc # "idle" => /\ invitation[v].invitee \in Address
                               /\ invitation[v].role \in Invitable

(* Only a request that has read its row asks for a permit. *)
PermitsFit == \A r \in Request : r \in Using => request[r].op \in {"register", "login"}

UsersInv ==
  /\ users \subseteq Address
  /\ request \in [Request -> RequestRow]
  /\ welcomed \in [Address -> Nat]
  /\ \A r \in Request : RequestFits(r)
  /\ OneWelcomePerAddress

OrgInv ==
  /\ founder \in [Org -> Address \cup {NoUser}]
  /\ role \in [Org -> [Address -> Role \cup {"none"}]]
  /\ invitation \in [Invitation -> InvitationRow]
  /\ \A v \in Invitation : InvitationFits(v)
  /\ FounderKeepsSeat

AInv == HashInv /\ PermitsFit /\ UsersInv /\ OrgInv

LEMMA AccountsInitial == AccountsInit => AInv
<1> SUFFICES ASSUME AccountsInit PROVE AInv
  OBVIOUS
<1>1. HashInv
  BY HashInitial DEF AccountsInit
<1>2. UsersInv
  BY DEF AccountsInit, UsersInv, RequestRow, NoRequest, RequestFits, OneWelcomePerAddress
<1>3. OrgInv
  <2>1. NoInvitation \in InvitationRow /\ NoInvitation.pc = "idle"
    BY AccountsAssumption DEF AccountsAssumption, NoInvitation, InvitationRow, Role
  <2> QED BY <2>1, AccountsAssumption
          DEF AccountsAssumption, AccountsInit, OrgInv, InvitationFits, FounderKeepsSeat
<1>4. PermitsFit
  BY DEF AccountsInit, HashInit, PermitsFit, Using, ToSet
<1> QED BY <1>1, <1>2, <1>3, <1>4 DEF AInv

(* The operations of the limit, in whatever order requests use them.       *)
LEMMA StepHash == HashInv /\ [AccountsNext]_accountVars => HashInv'
<1> SUFFICES ASSUME HashInv, [AccountsNext]_accountVars PROVE HashInv'
  OBVIOUS
<1>1. CASE UNCHANGED hashVars
  BY <1>1 DEF hashVars, HashInv, HashTypeOK, NoIdlePermit
<1>2. ASSUME NEW r \in Request, AskPermit(r) PROVE HashInv'
  BY <1>2, AcquireKeeps DEF AskPermit, Selected
<1>3. ASSUME NEW r \in Request, StartHash(r) PROVE HashInv'
  BY <1>3 DEF StartHash, HashInv, HashTypeOK, NoIdlePermit
<1>4. ASSUME NEW r \in holding, Release(r), running' = running \ {r},
             orphans' \in 0..MaxOrphans
      PROVE  HashInv'
  <2>1. running' \subseteq holding'
    BY <1>4, ReleaseKeeps DEF HashInv, HashTypeOK
  <2> QED BY <1>4, <2>1, ReleaseKeeps DEF HashInv, HashTypeOK
<1>5. ASSUME NEW r \in Request, EndHash(r) PROVE HashInv'
  <2>1. r \in holding /\ orphans' \in 0..MaxOrphans
    BY <1>5 DEF EndHash, HashInv, HashTypeOK
  <2> QED BY <1>4, <1>5, <2>1 DEF EndHash
<1>6. ASSUME NEW r \in Request, DropHash(r) PROVE HashInv'
  <2>1. orphans' \in 0..MaxOrphans
    BY <1>6, HashingAssumption DEF DropHash, HashInv, HashTypeOK, HashingAssumption
  <2> QED BY <1>4, <1>6, <2>1 DEF DropHash
<1>7. ASSUME EndOrphan PROVE HashInv'
  BY <1>7, HashingAssumption
  DEF EndOrphan, HashInv, HashTypeOK, NoIdlePermit, HashingAssumption
<1>8. ASSUME NEW r \in Request, DropRequest(r) PROVE HashInv'
  BY <1>1, <1>6, <1>8, LeaveKeeps DEF DropRequest
<1> QED BY <1>1, <1>2, <1>3, <1>5, <1>7, <1>8
        DEF AccountsNext, accountVars, Arrive, GetPermit, Hashed, InsertUser,
            OrphanEnds, CreateOrg, Invite, FindInvitee, SetRole, InviteFails

(* A request leaves the limit before it goes on.                           *)
LEMMA StepPermits ==
  HashInv /\ PermitsFit /\ request \in [Request -> RequestRow]
    /\ [AccountsNext]_accountVars => PermitsFit'
<1> SUFFICES ASSUME HashInv, PermitsFit, request \in [Request -> RequestRow],
                    [AccountsNext]_accountVars
             PROVE  PermitsFit'
  OBVIOUS
<1> USE DEF PermitsFit
<1>1. ASSUME UNCHANGED <<waiting, holding, request>> PROVE PermitsFit'
  BY <1>1 DEF Using, ToSet
<1>2. ASSUME NEW r \in Request, Using' \subseteq Using \ {r},
             \A q \in Request : q # r => request'[q] = request[q]
      PROVE  PermitsFit'
  BY <1>2
<1>3. ASSUME NEW r \in Request, NEW a \in Address, Arrive(r, a) PROVE PermitsFit'
  <2>1. UNCHANGED <<waiting, holding>>
    BY <1>3 DEF Arrive, hashVars
  <2>2. Using' = Using
    BY <2>1 DEF Using, ToSet
  <2> QED BY <1>3, <2>2 DEF Arrive
<1>4. ASSUME NEW r \in Request, AskPermit(r) PROVE PermitsFit'
  <2>1. Using' \subseteq Using \cup {r}
    BY <1>4, AcquireKeeps DEF AskPermit, Selected
  <2> QED BY <1>4, <2>1 DEF AskPermit, Selected, requestVars
<1>5. ASSUME NEW r \in Request, Hashed(r) PROVE PermitsFit'
  <2>1. r \in holding /\ Release(r)
    BY <1>5 DEF Hashed, EndHash, HashInv, HashTypeOK
  <2> QED BY <1>2, <1>5, <2>1, ReleaseKeeps DEF Hashed
<1>6. ASSUME NEW r \in Request, r \notin Using, UNCHANGED hashVars,
             \A q \in Request : q # r => request'[q] = request[q]
      PROVE  PermitsFit'
  <2>1. Using' = Using
    BY <1>6 DEF Using, ToSet, hashVars
  <2> QED BY <1>2, <1>6, <2>1
<1>7. ASSUME NEW r \in Request, InsertUser(r) PROVE PermitsFit'
  BY <1>6, <1>7 DEF InsertUser
<1>8. ASSUME NEW r \in Request, DropRequest(r) PROVE PermitsFit'
  <2>0. \A q \in Request : q # r => request'[q] = request[q]
    BY <1>8 DEF DropRequest
  <2>1. CASE LeaveQueue(r)
    BY <1>2, <2>0, <2>1, LeaveKeeps
  <2>2. CASE DropHash(r)
    BY <1>2, <2>0, <2>2, ReleaseKeeps DEF DropHash
  <2>3. CASE Selected(r) /\ UNCHANGED hashVars
    <3>1. r \notin Using
      BY <2>3 DEF Selected, Queued, Contains, Using, ToSet, HashInv, HashTypeOK
    <3> QED BY <1>6, <2>0, <2>3, <3>1
  <2>4. CASE request[r].op = "insert" /\ UNCHANGED hashVars
    BY <1>6, <2>0, <2>4
  <2> QED BY <1>8, <2>1, <2>2, <2>3, <2>4 DEF DropRequest
<1> QED BY <1>1, <1>3, <1>4, <1>5, <1>7, <1>8
        DEF AccountsNext, accountVars, requestVars, hashVars, GetPermit, StartHash,
            OrphanEnds, EndOrphan, CreateOrg, Invite, FindInvitee, SetRole, InviteFails

(* Whoever is welcomed was not there before; nobody is ever removed.       *)
LEMMA StepUsers ==
  HashInv /\ PermitsFit /\ UsersInv /\ [AccountsNext]_accountVars => UsersInv'
<1> SUFFICES ASSUME HashInv, PermitsFit, UsersInv, [AccountsNext]_accountVars
             PROVE  UsersInv'
  OBVIOUS
<1> USE DEF UsersInv, RequestFits, OneWelcomePerAddress
<1>0. NoRequest \in RequestRow /\ NoRequest.op = "none"
  BY DEF NoRequest, RequestRow
<1>1. CASE UNCHANGED requestVars
  BY <1>1 DEF requestVars
<1>2. ASSUME NEW r \in Request, NEW new \in RequestRow,
             request' = [request EXCEPT ![r] = new],
             new.op # "none" => new.address \in Address
      PROVE  /\ request' \in [Request -> RequestRow]
             /\ \A q \in Request : RequestFits(q)'
  BY <1>2
<1>3. ASSUME NEW r \in Request, NEW a \in Address, Arrive(r, a) PROVE UsersInv'
  <2> DEFINE new == [op |-> IF a \in users THEN "login" ELSE "register", address |-> a]
  <2>1. new \in RequestRow /\ new.address \in Address
    BY DEF RequestRow
  <2>2. request' = [request EXCEPT ![r] = new] /\ UNCHANGED <<users, welcomed>>
    BY <1>3 DEF Arrive
  <2> HIDE DEF new
  <2> QED BY <1>2, <2>1, <2>2
<1>4. ASSUME NEW r \in Request, Hashed(r) PROVE UsersInv'
  <2>0. request[r].op \in {"register", "login"}
    BY <1>4 DEF Hashed, EndHash, HashInv, HashTypeOK, PermitsFit, Using
  <2>1. PICK new \in {NoRequest, [request[r] EXCEPT !.op = "insert"]} :
          request' = [request EXCEPT ![r] = new]
    BY <1>4 DEF Hashed
  <2>2. new \in RequestRow /\ (new.op # "none" => new.address \in Address)
    BY <1>0, <2>0, <2>1 DEF RequestRow
  <2>3. UNCHANGED <<users, welcomed>>
    BY <1>4 DEF Hashed
  <2> QED BY <1>2, <2>1, <2>2, <2>3
<1>5. ASSUME NEW r \in Request, InsertUser(r) PROVE UsersInv'
  <2> DEFINE a == request[r].address
  <2>1. a \in Address /\ users' = users \cup {a}
    BY <1>5 DEF InsertUser
  <2>2. welcomed' = [welcomed EXCEPT ![a] = IF a \in users THEN welcomed[a]
                                                          ELSE welcomed[a] + 1]
    BY <1>5 DEF InsertUser
  <2>3. request' = [request EXCEPT ![r] = NoRequest]
    BY <1>5 DEF InsertUser
  <2> HIDE DEF a
  <2>4. welcomed' \in [Address -> Nat] /\ users' \subseteq Address
    BY <2>1, <2>2
  <2>5. OneWelcomePerAddress'
    BY <2>1, <2>2
  <2> QED BY <1>0, <1>2, <2>3, <2>4, <2>5
<1>6. ASSUME NEW r \in Request, DropRequest(r) PROVE UsersInv'
  <2>1. request' = [request EXCEPT ![r] = NoRequest] /\ UNCHANGED welcomed
    BY <1>6 DEF DropRequest
  <2>2. users \subseteq users' /\ users' \subseteq Address
    BY <1>6 DEF DropRequest
  <2> QED BY <1>0, <1>2, <2>1, <2>2
<1> QED BY <1>1, <1>3, <1>4, <1>5, <1>6
        DEF AccountsNext, accountVars, requestVars, AskPermit, GetPermit, OrphanEnds,
            CreateOrg, Invite, FindInvitee, SetRole, InviteFails

(* An owner is made once, with the organisation, and an invitation takes   *)
(* nobody's seat away.                                                     *)
LEMMA StepOrg == OrgInv /\ [AccountsNext]_accountVars => OrgInv'
<1> SUFFICES ASSUME OrgInv, [AccountsNext]_accountVars PROVE OrgInv'
  OBVIOUS
<1> USE DEF OrgInv, InvitationFits, FounderKeepsSeat
<1>0. NoInvitation \in InvitationRow /\ NoInvitation.pc = "idle"
  BY AccountsAssumption DEF AccountsAssumption, NoInvitation, InvitationRow, Role
<1>1. CASE UNCHANGED orgVars
  BY <1>1 DEF orgVars
<1>2. ASSUME NEW v \in Invitation, NEW new \in InvitationRow,
             invitation' = [invitation EXCEPT ![v] = new],
             new.pc # "idle" => new.invitee \in Address /\ new.role \in Invitable
      PROVE  /\ invitation' \in [Invitation -> InvitationRow]
             /\ \A w \in Invitation : InvitationFits(w)'
  BY <1>2
<1>3. ASSUME NEW o \in Org, NEW a \in Address, NEW to \in Role,
             role' = [role EXCEPT ![o][a] = to]
      PROVE  /\ role' \in [Org -> [Address -> Role \cup {"none"}]]
             /\ role'[o][a] = to
             /\ \A p \in Org, b \in Address :
                  p # o \/ b # a => role'[p][b] = role[p][b]
  <2>1. PICK seats : seats = [role[o] EXCEPT ![a] = to]
    OBVIOUS
  <2>2. /\ seats \in [Address -> Role \cup {"none"}] /\ seats[a] = to
        /\ \A b \in Address : b # a => seats[b] = role[o][b]
    BY <2>1
  <2>3. role' = [role EXCEPT ![o] = seats]
    BY <1>3, <2>1, Zenon
  <2> QED BY <2>2, <2>3
<1>4. ASSUME NEW o \in Org, NEW a \in Address, CreateOrg(o, a) PROVE OrgInv'
  <2>1. /\ founder[o] = NoUser /\ founder' = [founder EXCEPT ![o] = a]
        /\ role' = [role EXCEPT ![o][a] = "owner"] /\ UNCHANGED invitation
    BY <1>4 DEF CreateOrg
  <2>2. /\ role' \in [Org -> [Address -> Role \cup {"none"}]]
        /\ role'[o][a] = "owner"
        /\ \A p \in Org, b \in Address : p # o \/ b # a => role'[p][b] = role[p][b]
    BY <1>3, <2>1 DEF Role
  <2>3. \A b \in Address : role[o][b] # "owner"
    BY <2>1, AccountsAssumption DEF AccountsAssumption
  <2> QED BY <2>1, <2>2, <2>3
<1>5. ASSUME NEW v \in Invitation, NEW o \in Org, NEW by \in Address,
             NEW a \in Address, NEW to \in Invitable, Invite(v, o, by, a, to)
      PROVE  OrgInv'
  <2> DEFINE new == [pc |-> "allowed", org |-> o, invitee |-> a, role |-> to]
  <2>1. new \in InvitationRow /\ new.invitee \in Address /\ new.role \in Invitable
    BY DEF InvitationRow, Invitable, Role
  <2>2. invitation' = [invitation EXCEPT ![v] = new] /\ UNCHANGED <<founder, role>>
    BY <1>5 DEF Invite
  <2> HIDE DEF new
  <2> QED BY <1>2, <2>1, <2>2
<1>6. ASSUME NEW v \in Invitation, FindInvitee(v) PROVE OrgInv'
  <2>1. PICK new \in {NoInvitation, [invitation[v] EXCEPT !.pc = "found"]} :
          invitation' = [invitation EXCEPT ![v] = new]
    BY <1>6 DEF FindInvitee
  <2>2. /\ new \in InvitationRow
        /\ new.pc # "idle" => new.invitee \in Address /\ new.role \in Invitable
    BY <1>0, <1>6, <2>1 DEF FindInvitee, InvitationRow
  <2> QED BY <1>2, <1>6, <2>1, <2>2 DEF FindInvitee
<1>7. ASSUME NEW v \in Invitation, InviteFails(v) PROVE OrgInv'
  BY <1>0, <1>2, <1>7 DEF InviteFails
<1>8. ASSUME NEW v \in Invitation, SetRole(v) PROVE OrgInv'
  <2> DEFINE o == invitation[v].org
             a == invitation[v].invitee
             to == invitation[v].role
  <2>1. o \in Org /\ a \in Address /\ to \in Invitable
    BY <1>8 DEF SetRole, InvitationRow
  <2>2. to \in Role /\ to \notin {"none", "owner"}
    BY <2>1 DEF Invitable, Role
  <2>3. /\ role' = [role EXCEPT ![o][a] = to] /\ UNCHANGED founder
        /\ invitation' = [invitation EXCEPT ![v] = NoInvitation]
    BY <1>8 DEF SetRole
  <2> HIDE DEF o, a, to
  <2>4. /\ role' \in [Org -> [Address -> Role \cup {"none"}]]
        /\ role'[o][a] = to
        /\ \A p \in Org, b \in Address : p # o \/ b # a => role'[p][b] = role[p][b]
    BY <1>3, <2>1, <2>2, <2>3
  <2>5. FounderKeepsSeat'
    BY <2>1, <2>2, <2>3, <2>4
  <2> QED BY <1>0, <1>2, <2>3, <2>4, <2>5
<1> QED BY <1>1, <1>4, <1>5, <1>6, <1>7, <1>8
        DEF AccountsNext, accountVars, orgVars, Arrive, AskPermit, GetPermit, Hashed,
            InsertUser, DropRequest, OrphanEnds

-----------------------------------------------------------------------------
THEOREM AccountsInvariance == AccountsSpec => []AInv
<1>1. AInv /\ [AccountsNext]_accountVars => AInv'
  BY StepHash, StepPermits, StepUsers, StepOrg DEF AInv, UsersInv
<1> QED BY <1>1, AccountsInitial, PTL DEF AccountsSpec

(* Requests, users, organisations and the hash limit keep their types.     *)
THEOREM AccountsTypeCorrect == AccountsSpec => []AccountsTypeOK
<1>1. AInv => AccountsTypeOK
  BY DEF AInv, HashInv, UsersInv, OrgInv, AccountsTypeOK
<1> QED BY <1>1, AccountsInvariance, PTL

(* No more hashes are computed for requests than there are permits, for    *)
(* any number of requests, permits and abandoned hashes.                   *)
THEOREM HashingBounded == AccountsSpec => []HashThreadsBounded
<1>1. HashInv => HashThreadsBounded
  <2> SUFFICES ASSUME HashInv PROVE HashThreadsBounded
    OBVIOUS
  <2>1. /\ IsFiniteSet(running) /\ Cardinality(running) <= Cardinality(holding)
        /\ Cardinality(holding) \in Nat
    BY FS_Subset, FS_CardinalityType DEF HashInv, HashTypeOK
  <2>2. Cardinality(running) \in Nat
    BY <2>1, FS_CardinalityType
  <2> QED BY <2>1, <2>2, HashingAssumption
          DEF HashInv, HashThreadsBounded, HashingAssumption
<1> QED BY <1>1, AccountsInvariance, PTL DEF AInv

(* Nobody queues while a permit is free, whoever leaves the queue.         *)
THEOREM PermitsInUse == AccountsSpec => []NoIdlePermit
  BY AccountsInvariance, PTL DEF AInv, HashInv

(* No request takes a permit, or a place in the queue, along when it ends. *)
THEOREM PermitsReturned == AccountsSpec => []NoPermitLeaked
<1>1. AInv => NoPermitLeaked
  <2> SUFFICES ASSUME AInv PROVE NoPermitLeaked
    OBVIOUS
  <2>1. Using \subseteq Request
    BY DEF AInv, HashInv, HashTypeOK, Using, ToSet
  <2> QED BY <2>1 DEF AInv, PermitsFit, Using, NoPermitLeaked
<1> QED BY <1>1, AccountsInvariance, PTL

(* An address is welcomed at most once, however many register it at once.  *)
THEOREM WelcomedOnce == AccountsSpec => []OneWelcomePerAddress
  BY AccountsInvariance, PTL DEF AInv, UsersInv

(* The founder of an organisation stays a member, and nobody else owns it. *)
THEOREM FounderStays == AccountsSpec => []FounderKeepsSeat
  BY AccountsInvariance, PTL DEF AInv, OrgInv
=============================================================================
