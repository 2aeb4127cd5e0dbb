---- MODULE MCNetGuard ----
(* On Linux one tunnel, two interfaces that may hold the default route, one bridge; on  *)
(* macOS one tunnel and two services, each of which may be the primary one.             *)
EXTENDS MacGuard
====
