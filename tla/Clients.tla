------------------------------- MODULE Clients -------------------------------
(***************************************************************************)
(* The SDK clients of the adapters during one dossier run: each adapter    *)
(* creates its client, and with managed identity a credential, on first    *)
(* use, in whatever thread comes first and without a lock (the `client`    *)
(* properties under src/infrastructure/adapters), and Dependencies.close   *)
(* of src/infrastructure/config.py releases them when the run is over.     *)
(*                                                                         *)
(* Clustering classifies pages with the vision model from one thread       *)
(* before the workers run concurrently.  A client or credential is named   *)
(* by its adapter, and the thread and the use that created it.             *)
(***************************************************************************)
EXTENDS Wiring, FiniteSets

CONSTANTS
  Configurations,  (* settings a process may be started with               *)
  Workers,         (* worker threads                                       *)
  Main,            (* the thread that clusters and closes                  *)
  Nothing,         (* None                                                 *)
  MaxUses          (* bound: uses of a client per thread                   *)

Threads == Workers \cup {Main}

Object == Roles \X Threads \X (1..MaxUses)

ASSUME ClientsAssumption ==
  /\ Configurations \subseteq Settings
  /\ Main \notin Workers
  /\ MaxUses \in Nat
  /\ Nothing \notin Roles \cup Object

VARIABLES
  settings,     (* read once, when the process starts                      *)
  phase,        (* "building", "clustering", "working", "closing", "down"  *)
  client,       (* adapter -> self._client                                 *)
  credential,   (* adapter -> self._credential                             *)
  open_clients,     (* created and not yet closed                          *)
  open_credentials,
  pc,           (* where a thread is in the `client` property              *)
  adapter,      (* the adapter it is using                                 *)
  uses,
  handle,       (* what `client` returned to the thread last               *)
  closed,       (* close() calls of Dependencies.close made so far         *)
  failed,       (* adapters whose last close() raised                      *)
  disturbed     (* history: adapters created twice: by two threads that    *)
                (* raced, or again after a constructor raised              *)

thread == <<pc, adapter, uses, handle>>
held   == <<client, credential, open_clients, open_credentials>>
vars   == <<settings, phase, held, thread, closed, failed, disturbed>>

TypeOK ==
  /\ settings \in Configurations
  /\ phase \in {"building", "clustering", "working", "closing", "down"}
  /\ client \in [Roles -> Object \cup {Nothing}]
  /\ credential \in [Roles -> Object \cup {Nothing}]
  /\ open_clients \subseteq Object
  /\ open_credentials \subseteq Object
  /\ pc \in [Threads -> {"idle", "credential", "construct", "return"}]
  /\ adapter \in [Threads -> Roles \cup {Nothing}]
  /\ uses \in [Threads -> 0..MaxUses]
  /\ handle \in [Threads -> Object \cup {Nothing}]
  /\ closed \in 0..Len(Closes(settings))
  /\ failed \subseteq Roles
  /\ disturbed \subseteq Roles

Init ==
  /\ settings \in Configurations
  /\ phase = "building"
  /\ client = [a \in Roles |-> Nothing]
  /\ credential = [a \in Roles |-> Nothing]
  /\ open_clients = {}
  /\ open_credentials = {}
  /\ pc = [t \in Threads |-> "idle"]
  /\ adapter = [t \in Threads |-> Nothing]
  /\ uses = [t \in Threads |-> 0]
  /\ handle = [t \in Threads |-> Nothing]
  /\ closed = 0
  /\ failed = {}
  /\ disturbed = {}

-----------------------------------------------------------------------------
(* main builds the dependencies before it uses any: an adapter that is     *)
(* not configured raises while no client exists.                           *)
dependencies_built ==
  /\ phase = "building"
  /\ phase' \in {"clustering", "down"}
  /\ UNCHANGED <<settings, held, thread, closed, failed, disturbed>>

-----------------------------------------------------------------------------
(* The property `client`, one step per access to the shared attributes.    *)
Active(t) == phase = IF t = Main THEN "clustering" ELSE "working"

New(t) == <<adapter[t], t, uses[t]>>

(* classify_page while clustering, any resource in a worker.               *)
Uses(t) == IF t = Main THEN {"vlm"} ELSE Holders(settings)

check_client(t, a) ==
  /\ Active(t)
  /\ a \in Uses(t)
  /\ pc[t] = "idle"
  /\ uses[t] < MaxUses
  /\ uses' = [uses EXCEPT ![t] = @ + 1]
  /\ adapter' = [adapter EXCEPT ![t] = a]
  /\ pc' = [pc EXCEPT ![t] = IF client[a] # Nothing THEN "return"
                             ELSE IF a \in Keyless(settings) THEN "credential"
                             ELSE "construct"]
  /\ UNCHANGED <<settings, phase, held, handle, closed, failed, disturbed>>

(* _build_credential and _token_provider.                                  *)
build_credential(t) ==
  /\ pc[t] = "credential"
  /\ credential' = [credential EXCEPT ![adapter[t]] = New(t)]
  /\ open_credentials' = open_credentials \cup {New(t)}
  /\ disturbed' = disturbed \cup
       (IF credential[adapter[t]] # Nothing THEN {adapter[t]} ELSE {})
  /\ pc' = [pc EXCEPT ![t] = "construct"]
  /\ UNCHANGED <<settings, phase, client, open_clients, adapter, uses, handle, closed,
                 failed>>

(* Seeded fault: the client that is replaced is closed, in use or not.     *)
replaced_is_closed(open, old, new) == (open \ {old}) \cup {new}

Opened(open, old, new) == open \cup {new}

construct_client(t) ==
  /\ pc[t] = "construct"
  /\ client' = [client EXCEPT ![adapter[t]] = New(t)]
  /\ open_clients' = Opened(open_clients, client[adapter[t]], New(t))
  /\ disturbed' = disturbed \cup
       (IF client[adapter[t]] # Nothing THEN {adapter[t]} ELSE {})
  /\ pc' = [pc EXCEPT ![t] = "return"]
  /\ UNCHANGED <<settings, phase, credential, open_credentials, adapter, uses, handle,
                 closed, failed>>

(* The SDK, its credential or the constructor raises; the adapter's caller *)
(* sees a provider error.                                                  *)
construct_fails(t) ==
  /\ pc[t] \in {"credential", "construct"}
  /\ pc' = [pc EXCEPT ![t] = "idle"]
  /\ UNCHANGED <<settings, phase, held, adapter, uses, handle, closed, failed, disturbed>>

(* `return self._client` reads the attribute again.                        *)
return_client(t) ==
  /\ pc[t] = "return"
  /\ handle' = [handle EXCEPT ![t] = client[adapter[t]]]
  /\ pc' = [pc EXCEPT ![t] = "idle"]
  /\ UNCHANGED <<settings, phase, held, adapter, uses, closed, failed, disturbed>>

-----------------------------------------------------------------------------
(* The fan-out waits for clustering, and the invocation for every worker,  *)
(* before main reaches dependencies.close().                               *)
Quiet == \A t \in Threads : pc[t] = "idle"

fan_out ==
  /\ phase = "clustering" /\ Quiet
  /\ phase' = "working"
  /\ UNCHANGED <<settings, held, thread, closed, failed, disturbed>>

invocation_over ==
  /\ phase \in {"clustering", "working"} /\ Quiet
  /\ phase' = "closing"
  /\ UNCHANGED <<settings, held, thread, closed, failed, disturbed>>

(* Seeded fault: the adapter after one that raised is skipped.             *)
close_past_the_end(i, raised) == IF raised THEN i + 1 ELSE i

NextClose(i, raised) == i

(* Seeded fault: the attribute keeps the closed client.                    *)
still_held(object) == object

Released(object) == Nothing

(* One adapter's close(): the client, then the credential; what raises is  *)
(* kept, and an exception of the client skips the credential.  A client    *)
(* that is only dropped is closed by the garbage collector.                *)
close_adapter ==
  /\ phase = "closing" /\ closed < Len(Closes(settings))
  /\ LET a == Closes(settings)[closed + 1] IN
       \/ /\ client[a] # Nothing /\ a \notin OnlyDropped(settings)
          /\ failed' = failed \cup {a}
          /\ closed' = NextClose(closed + 1, TRUE)
          /\ UNCHANGED held
       \/ /\ credential[a] # Nothing
          /\ client' = [client EXCEPT ![a] = Released(@)]
          /\ open_clients' = open_clients \ {client[a]}
          /\ failed' = failed \cup {a}
          /\ closed' = NextClose(closed + 1, TRUE)
          /\ UNCHANGED <<credential, open_credentials>>
       \/ /\ client' = [client EXCEPT ![a] = Released(@)]
          /\ open_clients' = open_clients \ {client[a]}
          /\ credential' = [credential EXCEPT ![a] = Nothing]
          /\ open_credentials' = open_credentials \ {credential[a]}
          /\ failed' = failed \ {a}
          /\ closed' = NextClose(closed + 1, FALSE)
  /\ UNCHANGED <<settings, phase, thread, disturbed>>

closing_over ==
  /\ phase = "closing" /\ closed = Len(Closes(settings))
  /\ phase' = "down"
  /\ UNCHANGED <<settings, held, thread, closed, failed, disturbed>>

Next ==
  \/ dependencies_built
  \/ \E t \in Threads :
       \/ \E a \in Roles : check_client(t, a)
       \/ build_credential(t)
       \/ construct_client(t)
       \/ construct_fails(t)
       \/ return_client(t)
  \/ fan_out
  \/ invocation_over
  \/ close_adapter
  \/ closing_over

Spec == Init /\ [][Next]_vars

-----------------------------------------------------------------------------
(* Whatever thread won a race, each thread works with a client that is     *)
(* open until the workers are done: a worker whose client was replaced     *)
(* under it is not cut off.                                                *)
HandlesOpen ==
  phase \in {"clustering", "working"} =>
    \A t \in Threads : handle[t] # Nothing => handle[t] \in open_clients

(* An adapter never holds a client or a credential that is closed, so the  *)
(* close() a borrowing adapter already made, and one after it, are safe.   *)
HeldIsOpen ==
  \A a \in Roles :
    /\ client[a] # Nothing => client[a] \in open_clients
    /\ credential[a] # Nothing => credential[a] \in open_credentials

(* Whatever adapters a configuration wires together, one object or two of  *)
(* a kind, borrowed or their own, and whichever of them fails to close,    *)
(* what is left open after the teardown has a cause of its own: its        *)
(* close() raised, or two threads, or two attempts, created its client.    *)
LeaksExplained ==
  phase = "down" =>
    \A o \in open_clients \cup open_credentials : o[1] \in failed \cup disturbed
=============================================================================
