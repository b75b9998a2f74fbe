--------------------------- MODULE TripLifecycle ---------------------------
(***************************************************************************)
(* What the event consumer promises, whatever its workers do to each       *)
(* other: a registry of vehicles whose pairings are permanent, and trips   *)
(* that open once under a registered vehicle, then close, each with at     *)
(* most one archive, which is public and which the key kept with it opens. *)
(*                                                                         *)
(* Closing a closed trip again is allowed, a completion being delivered at *)
(* least once; opening one again, or taking an archive back, is not.       *)
(***************************************************************************)
CONSTANTS Devices, Tokens, TripIds, Keys, Archives, Null,
          Founding,      \* the registry to begin with
          KeyOf,         \* KeyOf[a]: the key an archive is sealed with
          TokenOf,       \* TokenOf[a]: the vehicle it says it belongs to
          Archiving,     \* are completed trips archived?
          Publishing     \* are archives published?

VARIABLES registry,   \* registry[k]: the device vehicle k is paired with
          status,     \* status[t] \in {"none", "open", "closed"}
          owner,      \* owner[t]: the vehicle that drove trip t
          key,        \* key[t], archive[t]: stored when t was last closed
          archive,
          published   \* the archives anybody can fetch

lifecycleVars == <<registry, status, owner, key, archive, published>>

Init ==
  /\ registry = Founding
  /\ status = [t \in TripIds |-> "none"]
  /\ owner = [t \in TripIds |-> Null]
  /\ key = [t \in TripIds |-> Null]
  /\ archive = [t \in TripIds |-> Null]
  /\ published = {}

Pair(k, d) ==
  /\ registry[k] = Null
  /\ \A j \in Tokens : registry[j] # d
  /\ registry' = [registry EXCEPT ![k] = d]
  /\ UNCHANGED <<status, owner, key, archive, published>>

Open(t, k) ==
  /\ status[t] = "none"
  /\ registry[k] # Null
  /\ status' = [status EXCEPT ![t] = "open"]
  /\ owner' = [owner EXCEPT ![t] = k]
  /\ UNCHANGED <<registry, key, archive, published>>

Publish(a) ==
  /\ Publishing
  /\ published' = published \cup {a}
  /\ UNCHANGED <<registry, status, owner, key, archive>>

Close(t, k) ==
  /\ status[t] # "none"
  /\ status' = [status EXCEPT ![t] = "closed"]
  /\ key' = [key EXCEPT ![t] = k]
  /\ \/ ~Archiving /\ archive' = archive
     \/ /\ Archiving
        /\ \E a \in Archives :
             /\ KeyOf[a] = k
             /\ TokenOf[a] = owner[t]
             /\ Publishing => a \in published
             /\ archive' = [archive EXCEPT ![t] = a]
  /\ UNCHANGED <<registry, owner, published>>

Next ==
  \/ \E k \in Tokens, d \in Devices : Pair(k, d)
  \/ \E t \in TripIds, k \in Tokens : Open(t, k)
  \/ \E a \in Archives : Publish(a)
  \/ \E t \in TripIds, k \in Keys : Close(t, k)

Spec == Init /\ [][Next]_lifecycleVars

=============================================================================
