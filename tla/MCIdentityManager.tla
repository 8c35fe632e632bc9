-------------------------- MODULE MCIdentityManager --------------------------
(***************************************************************************)
(* Two invocations in flight; one name with two certificates enrolled for  *)
(* it, besides the founder's.                                              *)
(***************************************************************************)
EXTENDS IdentityManager, TLC

CONSTANTS c1, c2, root, dan, rootCert, danCert1, danCert2, p1, p2

MCNameOf == (rootCert :> root) @@ (danCert1 :> dan) @@ (danCert2 :> dan)

Alike == Permutations({c1, c2}) \union Permutations({danCert1, danCert2})
         \union Permutations({p1, p2})

=============================================================================
