-------------------------------- MODULE Maps --------------------------------
(* Partial functions: the maps and sets of the Rust code.                   *)

(* The map f with key k bound to v, and the map f without the keys in K.    *)
With(f, k, v) == [x \in DOMAIN f \cup {k} |-> IF x = k THEN v ELSE f[x]]
Without(f, K) == [x \in DOMAIN f \ K |-> f[x]]

EmptyMap == [x \in {} |-> x]

=============================================================================
