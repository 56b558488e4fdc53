-------------------------------- MODULE Maps --------------------------------
(***************************************************************************)
(* The engine keeps its state in JavaScript Map objects.  A Map is a       *)
(* function on the finite set of keys it holds: `m.has(k)' is              *)
(* k \in DOMAIN m, `m.get(k)' is m[k] under that guard.                    *)
(***************************************************************************)

EmptyMap == [x \in {} |-> x]

\* m.set(k, v): adds the key or overwrites its value.
Put(m, k, v) == [x \in DOMAIN m \cup {k} |-> IF x = k THEN v ELSE m[x]]

\* m.delete(k) for every k in K; absent keys are ignored.
Without(m, K) == [x \in DOMAIN m \ K |-> m[x]]

\* m.delete(k)
Delete(m, k) == Without(m, {k})

\* m is a Map with keys in K and values in V.
IsMap(m, K, V) == /\ DOMAIN m \subseteq K
                  /\ m \in [DOMAIN m -> V]

=============================================================================
