--------------------------- MODULE ConsumerPromise ---------------------------
(***************************************************************************)
(* What exporting and importing promise to a consumer cluster, whatever    *)
(* runs in which order: a user of the provider gets a key of its own and   *)
(* keeps it; a CSI secret appears with a user and that user's key, and     *)
(* never changes; a storage class appears when the secrets it names are    *)
(* there, and never changes.  ExternalCluster implements this.             *)
(***************************************************************************)
VARIABLES
    keys,       \* the key of every user of the provider
    secrets,    \* the secrets in the consumer cluster: [user, key]
    classes     \* its storage classes: the secrets they name

vars == <<keys, secrets, classes>>

Extend(f, x, y) == [z \in DOMAIN f \cup {x} |-> IF z = x THEN y ELSE f[z]]

Init == DOMAIN secrets = {} /\ DOMAIN classes = {}

\* The provider creates a user, with a key that nobody has.
Issue ==
    /\ \E u \in DOMAIN keys' \ DOMAIN keys :
         /\ keys' = Extend(keys, u, keys'[u])
         /\ \A v \in DOMAIN keys : keys[v] # keys'[u]
    /\ UNCHANGED <<secrets, classes>>

\* The consumer gets a secret.
Store ==
    /\ \E s \in DOMAIN secrets' \ DOMAIN secrets : \E u \in DOMAIN keys :
         secrets' = Extend(secrets, s, [user |-> u, key |-> keys[u]])
    /\ UNCHANGED <<keys, classes>>

\* The consumer gets a storage class.
Offer ==
    /\ \E c \in DOMAIN classes' \ DOMAIN classes :
         /\ classes'[c] \subseteq DOMAIN secrets
         /\ classes' = Extend(classes, c, classes'[c])
    /\ UNCHANGED <<keys, secrets>>

Next == Issue \/ Store \/ Offer

Spec == Init /\ [][Next]_vars

=============================================================================
