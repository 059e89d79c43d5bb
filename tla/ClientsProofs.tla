---------------------------- MODULE ClientsProofs ----------------------------
(***************************************************************************)
(* The clients of a dossier run, for every number of workers and uses and  *)
(* every set of configurations: what an adapter holds is open, and what a  *)
(* thread was given stays open until the teardown.                         *)
(*                                                                         *)
(* Closing an adapter must not close the client of another one: the        *)
(* invariant says that an adapter holds what was created for it.           *)
(***************************************************************************)
EXTENDS Clients, SequenceTheorems, TLAPS

(* An adapter's client belongs to an adapter.                              *)
LEMMA HolderTypes ==
  ASSUME NEW s \in Settings, NEW i \in 1..3
  PROVE  Holder(build_dependencies(s)[i]) \in Roles
BY DEF Settings, Holder, build_dependencies, build_extractor,
       build_grounding_extractor, build_vlm_provider, Roles

(* The teardown closes adapters, and only them.                            *)
LEMMA ClosesTypes ==
  ASSUME NEW s \in Settings
  PROVE  Closes(s) \in Seq(Roles)
<1> DEFINE released(i) == IF Seen(s, i) THEN << >> ELSE <<Holder(build_dependencies(s)[i])>>
<1>1. \A i \in 1..3 : released(i) \in Seq(Roles)
  BY HolderTypes
<1>2. released(1) \in Seq(Roles) /\ released(2) \in Seq(Roles) /\ released(3) \in Seq(Roles)
  BY <1>1
<1> HIDE DEF released
<1>3. released(1) \o released(2) \in Seq(Roles)
  BY <1>2, ConcatProperties
<1>4. released(1) \o released(2) \o released(3) \in Seq(Roles)
  BY <1>2, <1>3, ConcatProperties
<1> QED BY <1>4 DEF Closes, released

-----------------------------------------------------------------------------
(* A thread at work in an adapter has one.                                 *)
Working ==
  \A t \in Threads : pc[t] # "idle" => adapter[t] \in Roles /\ uses[t] \in 1..MaxUses

TypeInv == TypeOK /\ Working

(* Every variable stays in its type, the teardown in its list.             *)
LEMMA TypeInvHolds == Spec => []TypeInv
<1>1. Init => TypeInv
  <2> SUFFICES ASSUME Init PROVE TypeInv
    OBVIOUS
  <2>1. Len(Closes(settings)) \in Nat
    BY ClosesTypes, ClientsAssumption DEF Init
  <2> QED BY <2>1, ClientsAssumption DEF Init, TypeInv, TypeOK, Working
<1>2. ASSUME TypeInv, [Next]_vars
      PROVE  TypeInv'
  <2> USE <1>2, ClientsAssumption DEF TypeInv
  <2>0. settings \in Settings /\ Len(Closes(settings)) \in Nat
    BY ClosesTypes DEF TypeOK
  <2>1. CASE dependencies_built \/ fan_out \/ invocation_over \/ closing_over \/ UNCHANGED vars
    BY <2>1 DEF dependencies_built, fan_out, invocation_over, closing_over, vars, held,
                thread, TypeOK, Working
  <2>2. ASSUME NEW t \in Threads, NEW a \in Roles, check_client(t, a)
        PROVE  TypeInv'
    <3>1. uses[t] \in 0..MaxUses /\ uses[t] < MaxUses /\ uses[t] + 1 \in 1..MaxUses
      BY <2>2 DEF check_client, TypeOK
    <3> QED BY <2>2, <3>1 DEF check_client, held, TypeOK, Working
  <2>3. ASSUME NEW t \in Threads, pc[t] # "idle"
        PROVE  New(t) \in Object /\ adapter[t] \in Roles
    BY <2>3 DEF New, Object, Working
  <2>4. ASSUME NEW t \in Threads, build_credential(t)
        PROVE  TypeInv'
    BY <2>3, <2>4 DEF build_credential, TypeOK, Working
  <2>5. ASSUME NEW t \in Threads, construct_client(t)
        PROVE  TypeInv'
    BY <2>3, <2>5 DEF construct_client, Opened, TypeOK, Working
  <2>6. ASSUME NEW t \in Threads, construct_fails(t)
        PROVE  TypeInv'
    BY <2>6 DEF construct_fails, held, TypeOK, Working
  <2>7. ASSUME NEW t \in Threads, return_client(t)
        PROVE  TypeInv'
    <3>1. client[adapter[t]] \in Object \cup {Nothing}
      BY <2>3, <2>7 DEF return_client, TypeOK
    <3> QED BY <2>7, <3>1 DEF return_client, held, TypeOK, Working
  <2>8. CASE close_adapter
    <3> DEFINE a == Closes(settings)[closed + 1]
    <3>1. closed + 1 \in 1..Len(Closes(settings)) /\ closed + 1 \in 0..Len(Closes(settings))
      BY <2>0, <2>8 DEF close_adapter, TypeOK
    <3>2. a \in Roles
      BY <2>0, <3>1, ClosesTypes, ElementOfSeq
    <3> HIDE DEF a
    <3>3. closed' = closed + 1 /\ failed' \in {failed \cup {a}, failed \ {a}}
      BY <2>8 DEF close_adapter, NextClose, a
    <3>4. /\ client' \in {client, [client EXCEPT ![a] = Nothing]}
          /\ credential' \in {credential, [credential EXCEPT ![a] = Nothing]}
          /\ open_clients' \in {open_clients, open_clients \ {client[a]}}
          /\ open_credentials' \in {open_credentials, open_credentials \ {credential[a]}}
      BY <2>8 DEF close_adapter, Released, held, a
    <3>5. UNCHANGED <<settings, phase, pc, adapter, uses, handle, disturbed>>
      BY <2>8 DEF close_adapter, thread
    <3> QED BY <3>1, <3>2, <3>3, <3>4, <3>5 DEF TypeOK, Working
  <2> QED BY <2>1, <2>2, <2>4, <2>5, <2>6, <2>7, <2>8 DEF Next
<1> QED BY <1>1, <1>2, PTL DEF Spec

(* The type invariant of the runs.                                         *)
THEOREM TypeCorrect == Spec => []TypeOK
<1>1. TypeInv => TypeOK
  BY DEF TypeInv
<1> QED BY <1>1, TypeInvHolds, PTL

-----------------------------------------------------------------------------
(* What an adapter holds was created for it, and is open.                  *)
Owned ==
  \A a \in Roles :
    /\ client[a] # Nothing => client[a][1] = a /\ client[a] \in open_clients
    /\ credential[a] # Nothing => credential[a][1] = a /\ credential[a] \in open_credentials

(* Until the teardown begins, no client is closed under a thread.          *)
InUse ==
  phase \notin {"closing", "down"} =>
    \A t \in Threads : handle[t] # Nothing => handle[t] \in open_clients

(* Creating and closing keep to the adapter they are called on.            *)
LEMMA OwnedHolds == Spec => []Owned
<1>1. Init => Owned
  BY DEF Init, Owned
<1>2. ASSUME TypeInv, Owned, [Next]_vars
      PROVE  Owned'
  <2> USE <1>2, ClientsAssumption DEF Owned
  <2>0. /\ client \in [Roles -> Object \cup {Nothing}]
        /\ credential \in [Roles -> Object \cup {Nothing}]
        /\ settings \in Settings
    BY DEF TypeInv, TypeOK
  <2>1. CASE \/ dependencies_built \/ fan_out \/ invocation_over \/ closing_over
             \/ UNCHANGED vars
             \/ \E t \in Threads : \/ \E a \in Roles : check_client(t, a)
                                   \/ construct_fails(t)
                                   \/ return_client(t)
    BY <2>1 DEF dependencies_built, fan_out, invocation_over, closing_over, check_client,
                construct_fails, return_client, vars, held
  <2>2. ASSUME NEW t \in Threads, build_credential(t)
        PROVE  Owned'
    <3>1. New(t)[1] = adapter[t] /\ adapter[t] \in Roles
      BY <2>2 DEF build_credential, New, TypeInv, Working
    <3> QED BY <2>0, <2>2, <3>1 DEF build_credential
  <2>3. ASSUME NEW t \in Threads, construct_client(t)
        PROVE  Owned'
    <3>1. New(t)[1] = adapter[t] /\ adapter[t] \in Roles
      BY <2>3 DEF construct_client, New, TypeInv, Working
    <3> QED BY <2>0, <2>3, <3>1 DEF construct_client, Opened
  <2>4. CASE close_adapter
    <3> DEFINE a == Closes(settings)[closed + 1]
    <3> HIDE DEF a
    <3>1. \/ UNCHANGED held
          \/ /\ client' = [client EXCEPT ![a] = Nothing]
             /\ open_clients' = open_clients \ {client[a]}
             /\ UNCHANGED <<credential, open_credentials>>
          \/ /\ client' = [client EXCEPT ![a] = Nothing]
             /\ open_clients' = open_clients \ {client[a]}
             /\ credential' = [credential EXCEPT ![a] = Nothing]
             /\ open_credentials' = open_credentials \ {credential[a]}
      BY <2>4 DEF close_adapter, Released, a
    <3>2. a \in Roles
      <4>1. Closes(settings) \in Seq(Roles)
        BY <2>0, ClosesTypes
      <4>2. closed + 1 \in 1..Len(Closes(settings))
        BY <2>4, <4>1 DEF close_adapter, TypeInv, TypeOK
      <4> QED BY <4>1, <4>2, ElementOfSeq DEF a
    <3> QED BY <2>0, <3>1, <3>2 DEF held
  <2> QED BY <2>1, <2>2, <2>3, <2>4 DEF Next
<1> QED BY <1>1, <1>2, TypeInvHolds, PTL DEF Spec

(* An adapter never holds a client or credential that is closed, whatever  *)
(* shares it, borrows it or failed to close it before.                     *)
THEOREM HeldIsOpenHolds == Spec => []HeldIsOpen
<1>1. Owned => HeldIsOpen
  BY DEF Owned, HeldIsOpen
<1> QED BY <1>1, OwnedHolds, PTL

(* No thread works with a client another one replaced and closed.          *)
THEOREM HandlesOpenHolds == Spec => []HandlesOpen
<1>1. Init => InUse
  BY DEF Init, InUse
<1>2. ASSUME TypeInv, Owned, InUse, [Next]_vars
      PROVE  InUse'
  <2> USE <1>2, ClientsAssumption DEF InUse
  <2>1. CASE \/ dependencies_built \/ fan_out \/ invocation_over \/ closing_over
             \/ UNCHANGED vars
             \/ \E t \in Threads : \/ \E a \in Roles : check_client(t, a)
                                   \/ construct_fails(t)
                                   \/ build_credential(t)
                                   \/ construct_client(t)
    BY <2>1 DEF dependencies_built, fan_out, invocation_over, closing_over, check_client,
                construct_fails, build_credential, construct_client, Opened, vars, held,
                thread
  <2>2. ASSUME NEW t \in Threads, return_client(t)
        PROVE  InUse'
    <3>1. adapter[t] \in Roles /\ handle \in [Threads -> Object \cup {Nothing}]
      BY <2>2 DEF return_client, TypeInv, TypeOK, Working
    <3> QED BY <2>2, <3>1 DEF return_client, Owned, held
  <2>3. CASE close_adapter
    BY <2>3 DEF close_adapter
  <2> QED BY <2>1, <2>2, <2>3 DEF Next
<1>3. InUse => HandlesOpen
  BY DEF InUse, HandlesOpen
<1> QED BY <1>1, <1>2, <1>3, TypeInvHolds, OwnedHolds, PTL DEF Spec

-----------------------------------------------------------------------------
(* The adapters the teardown releases.                                     *)
Teardown(s) == {Closes(s)[i] : i \in 1..Len(Closes(s))}

(* However adapters are shared and borrowed, whoever may hold a client is  *)
(* among them.                                                             *)
LEMMA AllReleased ==
  ASSUME NEW s \in Settings
  PROVE  Holders(s) \cup {"vlm"} \subseteq Teardown(s)
<1> DEFINE part(i) == IF Seen(s, i) THEN << >> ELSE <<Holder(build_dependencies(s)[i])>>
           In(seq) == {seq[k] : k \in 1..Len(seq)}
           d == build_dependencies(s)
<1>1. ASSUME NEW i \in 1..3
      PROVE  /\ part(i) \in Seq(Roles)
             /\ ~ Seen(s, i) => Holder(d[i]) \in In(part(i))
  <2>1. Holder(d[i]) \in Roles
    BY HolderTypes
  <2> HIDE DEF d
  <2> QED BY <2>1 DEF d
<1>2. ASSUME NEW p \in Seq(Roles), NEW q \in Seq(Roles)
      PROVE  p \o q \in Seq(Roles) /\ In(p \o q) = In(p) \cup In(q)
  <2>1. /\ p \o q \in Seq(Roles) /\ Len(p) \in Nat /\ Len(q) \in Nat
        /\ Len(p \o q) = Len(p) + Len(q)
        /\ \A k \in 1..(Len(p) + Len(q)) :
             (p \o q)[k] = IF k <= Len(p) THEN p[k] ELSE q[k - Len(p)]
    BY ConcatProperties
  <2>2. In(p \o q) \subseteq In(p) \cup In(q)
    BY <2>1
  <2>3. ASSUME NEW k \in 1..Len(p)
        PROVE  p[k] \in In(p \o q)
    BY <2>1
  <2>4. ASSUME NEW k \in 1..Len(q)
        PROVE  q[k] \in In(p \o q)
    <3>1. Len(p) + k \in 1..(Len(p) + Len(q)) /\ ~ (Len(p) + k <= Len(p))
          /\ Len(p) + k - Len(p) = k
      BY <2>1
    <3>2. (p \o q)[Len(p) + k] = q[k]
      BY <2>1, <3>1
    <3> QED BY <2>1, <3>1, <3>2
  <2> QED BY <2>1, <2>2, <2>3, <2>4
<1> HIDE DEF part
<1>3. Teardown(s) = In(part(1)) \cup In(part(2)) \cup In(part(3))
  <2>1. part(1) \in Seq(Roles) /\ part(2) \in Seq(Roles) /\ part(3) \in Seq(Roles)
    BY <1>1
  <2>2. /\ part(1) \o part(2) \in Seq(Roles)
        /\ In(part(1) \o part(2)) = In(part(1)) \cup In(part(2))
    BY <1>2, <2>1
  <2>3. In(part(1) \o part(2) \o part(3)) = In(part(1) \o part(2)) \cup In(part(3))
    BY <1>2, <2>1, <2>2
  <2> QED BY <2>2, <2>3 DEF Teardown, Closes, part
<1> HIDE DEF In
<1>4. ~ Seen(s, 1) /\ ~ Seen(s, 3) /\ (Seen(s, 2) => d[2] = d[1])
  BY DEF Seen, Settings, build_dependencies, build_extractor, build_grounding_extractor,
         build_vlm_provider
<1>5. Holder(d[3]) = "vlm"
  BY DEF Settings, build_dependencies, build_vlm_provider, Holder
<1>6. Holders(s) = {Holder(d[1]), Holder(d[2]), Holder(d[3])}
  BY DEF Holders, Resources
<1>7. \A i \in {1, 2, 3} : Holder(d[i]) \in Teardown(s)
  BY <1>1, <1>3, <1>4
<1> QED BY <1>5, <1>6, <1>7

(* Who will be asked to release what an adapter holds.                     *)
Pending(a) ==
  \E i \in 1..Len(Closes(settings)) : i > closed /\ Closes(settings)[i] = a

Idle == client = [a \in Roles |-> Nothing] /\ credential = [a \in Roles |-> Nothing]

(* Clients are created between the building of the dependencies and the    *)
(* teardown only, by adapters the teardown reaches.                        *)
Phases ==
  /\ phase \in {"building", "closing", "down"} => \A t \in Threads : pc[t] = "idle"
  /\ phase \in {"building", "clustering", "working"} => closed = 0
  /\ phase = "building" => Idle
  /\ phase = "down" => Idle \/ closed = Len(Closes(settings))
  /\ \A t \in Threads : pc[t] # "idle" => adapter[t] \in Teardown(settings)

(* What is open is held, unless another client took its place; what is     *)
(* held is still to be closed, unless closing it failed.                   *)
Accounted ==
  /\ \A o \in open_clients : o[1] \in disturbed \/ client[o[1]] = o
  /\ \A o \in open_credentials : o[1] \in disturbed \/ credential[o[1]] = o
  /\ \A a \in Roles :
       client[a] # Nothing \/ credential[a] # Nothing => a \in failed \/ Pending(a)

(* Both hold whichever threads create at once and whichever close fails.   *)
LEMMA AccountedHolds == Spec => [](Phases /\ Accounted)
<1>1. Init => Phases /\ Accounted
  BY DEF Init, Phases, Idle, Accounted
<1>2. ASSUME TypeInv, Owned, Phases, Accounted, [Next]_vars
      PROVE  Phases' /\ Accounted'
  <2> USE <1>2, ClientsAssumption
  <2>0. /\ client \in [Roles -> Object \cup {Nothing}]
        /\ credential \in [Roles -> Object \cup {Nothing}]
        /\ open_clients \subseteq Object /\ open_credentials \subseteq Object
        /\ settings \in Settings
        /\ closed \in 0..Len(Closes(settings)) /\ Len(Closes(settings)) \in Nat
        /\ Closes(settings) \in Seq(Roles)
        /\ UNCHANGED settings
    <3>1. settings \in Settings /\ closed \in 0..Len(Closes(settings))
      BY DEF TypeInv, TypeOK
    <3>2. Closes(settings) \in Seq(Roles) /\ Len(Closes(settings)) \in Nat
      BY <3>1, ClosesTypes
    <3>3. UNCHANGED settings
      BY DEF Next, vars, dependencies_built, check_client, build_credential,
             construct_client, construct_fails, return_client, fan_out, invocation_over,
             close_adapter, closing_over
    <3> QED BY <3>1, <3>2, <3>3 DEF TypeInv, TypeOK
  <2>1. CASE \/ dependencies_built \/ fan_out \/ invocation_over \/ closing_over
             \/ UNCHANGED vars
    <3>1. UNCHANGED <<held, thread, closed, failed, disturbed, settings>>
      BY <2>0, <2>1 DEF dependencies_built, fan_out, invocation_over, closing_over, vars
    <3>2. Accounted'
      BY <3>1 DEF held, Accounted, Pending
    <3>3. Phases'
      BY <2>1, <3>1 DEF dependencies_built, fan_out, invocation_over, closing_over, Quiet,
                        vars, held, thread, Phases, Idle
    <3> QED BY <3>2, <3>3
  <2>2. ASSUME NEW t \in Threads,
               \/ \E a \in Roles : check_client(t, a)
               \/ construct_fails(t)
               \/ return_client(t)
        PROVE  Phases' /\ Accounted'
    <3>1. UNCHANGED <<held, closed, failed, disturbed, settings, phase>>
      BY <2>2 DEF check_client, construct_fails, return_client
    <3>2. Accounted'
      BY <3>1 DEF held, Accounted, Pending
    <3>3. phase \notin {"building", "closing", "down"}
      BY <2>2 DEF check_client, Active, construct_fails, return_client, Phases
    <3>4. \A u \in Threads : pc'[u] # "idle" => adapter'[u] \in Teardown(settings)
      <4>1. CASE \E a \in Roles : check_client(t, a)
        <5>1. PICK a \in Roles : check_client(t, a)
          BY <4>1
        <5>2. a \in Teardown(settings)
          BY <2>0, <5>1, AllReleased DEF check_client, Uses
        <5>3. /\ adapter' = [adapter EXCEPT ![t] = a]
              /\ \A u \in Threads : u # t => pc'[u] = pc[u]
          BY <5>1 DEF check_client, TypeInv, TypeOK
        <5> QED BY <5>2, <5>3 DEF Phases, TypeInv, TypeOK
      <4>2. CASE construct_fails(t) \/ return_client(t)
        BY <4>2 DEF construct_fails, return_client, Phases, TypeInv, TypeOK
      <4> QED BY <2>2, <4>1, <4>2
    <3>5. Phases'
      BY <3>1, <3>3, <3>4 DEF Phases
    <3> QED BY <3>2, <3>5
  <2>3. ASSUME NEW t \in Threads, build_credential(t) \/ construct_client(t)
        PROVE  Phases' /\ Accounted'
    <3> DEFINE a == adapter[t]
    <3>1. /\ a \in Roles /\ a \in Teardown(settings) /\ New(t)[1] = a
          /\ phase \notin {"building", "closing", "down"} /\ closed = 0
      BY <2>3 DEF build_credential, construct_client, New, TypeInv, TypeOK, Working, Phases
    <3>2. UNCHANGED <<settings, phase, adapter, closed, failed>>
      BY <2>3 DEF build_credential, construct_client
    <3>3. Phases'
      BY <2>3, <3>1, <3>2 DEF build_credential, construct_client, Phases, TypeInv, TypeOK
    <3>4. Pending(a) /\ \A b \in Roles : Pending(b)' = Pending(b)
      BY <2>0, <3>1, <3>2 DEF Pending, Teardown
    <3>5. \/ /\ credential' = [credential EXCEPT ![a] = New(t)]
             /\ open_credentials' = open_credentials \cup {New(t)}
             /\ disturbed' = disturbed \cup (IF credential[a] # Nothing THEN {a} ELSE {})
             /\ UNCHANGED <<client, open_clients>>
          \/ /\ client' = [client EXCEPT ![a] = New(t)]
             /\ open_clients' = open_clients \cup {New(t)}
             /\ disturbed' = disturbed \cup (IF client[a] # Nothing THEN {a} ELSE {})
             /\ UNCHANGED <<credential, open_credentials>>
      BY <2>3 DEF build_credential, construct_client, Opened
    <3> HIDE DEF a
    <3>6. \A b \in Roles :
            client'[b] # Nothing \/ credential'[b] # Nothing => b \in failed' \/ Pending(b)'
      BY <2>0, <3>1, <3>2, <3>4, <3>5 DEF Accounted
    <3>7. /\ \A o \in open_clients' : o[1] \in disturbed' \/ client'[o[1]] = o
          /\ \A o \in open_credentials' : o[1] \in disturbed' \/ credential'[o[1]] = o
      <4>1. \A o \in Object : o[1] \in Roles /\ o # Nothing
        BY DEF Object
      <4> QED BY <2>0, <3>1, <3>5, <4>1 DEF Accounted
    <3> QED BY <3>3, <3>6, <3>7 DEF Accounted
  <2>4. CASE close_adapter
    <3> DEFINE a == Closes(settings)[closed + 1]
    <3>1. /\ closed + 1 \in 1..Len(Closes(settings)) /\ closed \in Nat /\ phase = "closing"
          /\ closed' = closed + 1
          /\ UNCHANGED <<settings, phase, thread, disturbed>>
      BY <2>0, <2>4 DEF close_adapter, NextClose
    <3>2. a \in Roles
      BY <2>0, <3>1, ElementOfSeq
    <3>3. ASSUME NEW b \in Roles, Pending(b), b # a
          PROVE  Pending(b)'
      <4>1. PICK i \in 1..Len(Closes(settings)) : i > closed /\ Closes(settings)[i] = b
        BY <3>3 DEF Pending
      <4>2. i > closed + 1
        BY <3>1, <3>3, <4>1
      <4> QED BY <3>1, <4>1, <4>2 DEF Pending
    <3> HIDE DEF a
    <3>4. \/ UNCHANGED held /\ failed' = failed \cup {a}
          \/ /\ client' = [client EXCEPT ![a] = Nothing]
             /\ open_clients' = open_clients \ {client[a]}
             /\ failed' = failed \cup {a}
             /\ UNCHANGED <<credential, open_credentials>>
          \/ /\ client' = [client EXCEPT ![a] = Nothing]
             /\ open_clients' = open_clients \ {client[a]}
             /\ credential' = [credential EXCEPT ![a] = Nothing]
             /\ open_credentials' = open_credentials \ {credential[a]}
             /\ failed' = failed \ {a}
      BY <2>4 DEF close_adapter, Released, a
    <3>5. \A b \in Roles :
            client'[b] # Nothing \/ credential'[b] # Nothing => b \in failed' \/ Pending(b)'
      BY <2>0, <3>2, <3>3, <3>4 DEF Accounted, held
    <3>6. /\ \A o \in open_clients' : o[1] \in disturbed' \/ client'[o[1]] = o
          /\ \A o \in open_credentials' : o[1] \in disturbed' \/ credential'[o[1]] = o
      <4>1. /\ client' = client /\ open_clients' = open_clients
            \/ /\ client' = [client EXCEPT ![a] = Nothing]
               /\ open_clients' = open_clients \ {client[a]}
        BY <3>4 DEF held
      <4>2. /\ credential' = credential /\ open_credentials' = open_credentials
            \/ /\ credential' = [credential EXCEPT ![a] = Nothing]
               /\ open_credentials' = open_credentials \ {credential[a]}
        BY <3>4 DEF held
      <4>3. \A o \in Object : o[1] \in Roles
        BY DEF Object
      <4>4. ASSUME NEW o \in open_clients'
            PROVE  o[1] \in disturbed' \/ client'[o[1]] = o
        <5>1. o \in open_clients /\ (o[1] \in disturbed \/ client[o[1]] = o)
          BY <4>1 DEF Accounted
        <5>2. client[o[1]] = o => client'[o[1]] = o
          BY <2>0, <4>1, <4>3, <5>1
        <5> QED BY <3>1, <5>1, <5>2
      <4>5. ASSUME NEW o \in open_credentials'
            PROVE  o[1] \in disturbed' \/ credential'[o[1]] = o
        <5>1. o \in open_credentials /\ (o[1] \in disturbed \/ credential[o[1]] = o)
          BY <4>2 DEF Accounted
        <5>2. credential[o[1]] = o => credential'[o[1]] = o
          BY <2>0, <4>2, <4>3, <5>1
        <5> QED BY <3>1, <5>1, <5>2
      <4> QED BY <4>4, <4>5
    <3>7. Phases'
      BY <3>1 DEF Phases, thread
    <3> QED BY <3>5, <3>6, <3>7 DEF Accounted
  <2> QED BY <2>1, <2>2, <2>3, <2>4 DEF Next
<1> QED BY <1>1, <1>2, TypeInvHolds, OwnedHolds, PTL DEF Spec

(* After the teardown nothing is open by accident of the wiring: whatever  *)
(* adapters are one object or borrow a client, what is left was created    *)
(* twice, or its close() raised.                                           *)
THEOREM LeaksExplainedHolds == Spec => []LeaksExplained
<1>1. ASSUME TypeInv, Phases, Accounted
      PROVE  LeaksExplained
  <2> SUFFICES ASSUME phase = "down", NEW o \in open_clients \cup open_credentials,
                      o[1] \notin disturbed
               PROVE  o[1] \in failed
    BY DEF LeaksExplained
  <2>1. o \in Object /\ o[1] \in Roles /\ o # Nothing
    BY <1>1, ClientsAssumption DEF TypeInv, TypeOK, Object
  <2>2. client[o[1]] = o \/ credential[o[1]] = o
    BY <1>1 DEF Accounted
  <2>3. o[1] \in failed \/ Pending(o[1])
    BY <1>1, <2>1, <2>2 DEF Accounted
  <2>4. closed = Len(Closes(settings))
    BY <1>1, <2>1, <2>2 DEF Phases, Idle
  <2>5. ~ Pending(o[1])
    BY <2>4 DEF Pending
  <2> QED BY <2>3, <2>5
<1> QED BY <1>1, TypeInvHolds, AccountedHolds, PTL
=============================================================================
