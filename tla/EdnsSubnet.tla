----------------------------- MODULE EdnsSubnet -----------------------------
(***************************************************************************)
(* The EDNS client subnet option that every query sent to a resolver gets  *)
(* (shared/src/dns.rs, set_ecs_option), as operators on packets, and what  *)
(* it is for, as a relation between the packets before and after.          *)
(*                                                                         *)
(* A packet is its four section counts and its body, a sequence of records *)
(* in wire order.  A record that claims more bytes than are left in the    *)
(* packet is not whole; the counts may claim records that are not there.   *)
(* An OPT record has options, of which one that claims too many bytes has  *)
(* the code "bad".                                                         *)
(***************************************************************************)
EXTENDS Naturals, Sequences, FiniteSets, Functions

CONSTANTS
    Subnets,    \* the networks of clients with a public IPv4 address
    Packets,    \* the queries clients send
    NoClient    \* the address of a client on the loopback, or with IPv6

DefaultSize == 4096
CountMod == 65536   \* section counts are u16
Counts == 0..CountMod - 1

ASSUME SubnetsAssumption == NoClient \notin Subnets

\* A datagram has fewer bytes than CountMod, and a record has more than one.
ASSUME PacketsAssumption ==
    \A p \in Packets :
        /\ p \in [qd : Counts, an : Counts, ns : Counts, ar : Counts, body : Seq(Range(p.body))]
        /\ Len(p.body) + 1 < CountMod
        /\ \A i \in DOMAIN p.body : p.body[i].type = "OPT" =>
              p.body[i].options \in Seq(Range(p.body[i].options))

Ecs(client) == [code |-> "ecs", data |-> client]
OptRecord(size, flags, options) ==
    [type |-> "OPT", whole |-> TRUE, size |-> size, flags |-> flags, options |-> options]

Additional(p) == (p.qd + p.an + p.ns + 1)..(p.qd + p.an + p.ns + p.ar)

\* The place of the OPT record, as a set of at most one: the first OPT of the
\* additional section, if the walk over the packet gets there.
find_opt_record(p) ==
    {i \in Additional(p) \cap DOMAIN p.body :
        /\ p.body[i].type = "OPT"
        /\ \A j \in 1..i : p.body[j].whole
        /\ \A j \in Additional(p) : j < i => p.body[j].type # "OPT"}

\* The options up to one that does not fit.
parse_options(options) ==
    LET fits(n) == \A i \in 1..n : options[i].code # "bad"
    IN  SubSeq(options, 1, CHOOSE n \in 0..Len(options) :
                              fits(n) /\ (n < Len(options) => ~fits(n + 1)))

\* The places of the options that are not about a subnet, and what Vec::retain makes
\* of them: the n-th that is left is the one with n of them up to its place.
Others(options) == {i \in DOMAIN options : options[i].code # "ecs"}
Nth(S, n) == CHOOSE i \in S : Cardinality(S \cap 1..i) = n
retain(options) ==
    [n \in 1..Cardinality(Others(options)) |-> options[Nth(Others(options), n)]]

\* Bug: the client's own subnet option is kept beside the new one.
new_options_appended(options, client) == Append(parse_options(options), Ecs(client))

new_options(options, client) ==
    Append(retain(parse_options(options)), Ecs(client))

\* An OPT record that is there is rewritten in its place; else one is added at the
\* end of the packet and counted.
rebuild_with_new_opt(p, client) ==
    IF find_opt_record(p) # {}
    THEN LET i == CHOOSE i \in find_opt_record(p) : TRUE
             o == p.body[i]
         IN  [p EXCEPT !.body[i] = OptRecord(o.size, o.flags, new_options(o.options, client))]
    ELSE [p EXCEPT !.body = Append(@, OptRecord(DefaultSize, 0, <<Ecs(client)>>)),
                   !.ar = (@ + 1) % CountMod]

\* Loopback clients get none, and for IPv6 ones the caller sends the packet as it is.
set_ecs_option(p, client) ==
    IF client = NoClient THEN p ELSE rebuild_with_new_opt(p, client)

-----------------------------------------------------------------------------
(* What it is for.                                                          *)

\* Every record the counts claim is there and whole, and nothing else is; one OPT at
\* most, with options that all fit.
WellFormed(p) ==
    /\ Len(p.body) = p.qd + p.an + p.ns + p.ar
    /\ \A i \in DOMAIN p.body :
          p.body[i].whole /\ (p.body[i].type = "OPT" => i \in Additional(p))
    /\ \A i, j \in DOMAIN p.body : p.body[i].type = "OPT" /\ p.body[j].type = "OPT" => i = j
    /\ \A i \in DOMAIN p.body : p.body[i].type = "OPT" =>
          \A k \in DOMAIN p.body[i].options : p.body[i].options[k].code # "bad"

\* The elements of s at the places S are those of t at the places T, in their order.
SameInOrder(s, S, t, T) ==
    \E to \in Bijection(S, T) :
        /\ \A i \in S : t[to[i]] = s[i]
        /\ \A i, j \in S : i < j => to[i] < to[j]

NotOpts(p) == {i \in DOMAIN p.body : p.body[i].type # "OPT"}

\* options name that network once and no other, and are else what old are.
OptionsInSubnet(old, client, options) ==
    /\ \E k \in DOMAIN options :
          options[k] = Ecs(client) /\ \A l \in DOMAIN options : options[l].code = "ecs" => l = k
    /\ SameInOrder(old, Others(old), options, Others(options))

\* out is p for a client in that network: the one OPT record names the client's
\* network and no other, and all that the client itself asked for is still there, in
\* its order.
InSubnet(p, client, out) ==
    /\ WellFormed(out)
    /\ out.qd = p.qd /\ out.an = p.an /\ out.ns = p.ns
    /\ SameInOrder(p.body, NotOpts(p), out.body, NotOpts(out))
    /\ \E i \in DOMAIN out.body :
          /\ out.body[i].type = "OPT"
          /\ \A j \in DOMAIN p.body : p.body[j].type = "OPT" =>
                /\ out.body[i].size = p.body[j].size /\ out.body[i].flags = p.body[j].flags
                /\ OptionsInSubnet(p.body[j].options, client, out.body[i].options)
          /\ NotOpts(p) = DOMAIN p.body => OptionsInSubnet(<<>>, client, out.body[i].options)

\* Every query comes out with its client's network in it, and as well-formed as it
\* was; queries of loopback and IPv6 clients come out as they were.
SubnetIsSet ==
    \A p \in Packets, client \in Subnets \cup {NoClient} :
        LET out == set_ecs_option(p, client)
        IN  IF client = NoClient
            THEN out = p
            ELSE WellFormed(p) => InSubnet(p, client, out)

=============================================================================
