---- MODULE MCResolverFinder ----
(* A configured DoH resolver; two plain resolvers on the lists, one of which is dead. *)
EXTENDS ResolverFinder
====
