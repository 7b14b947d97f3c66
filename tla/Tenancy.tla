------------------------------- MODULE Tenancy -------------------------------
(***************************************************************************)
(* The cache keys and collection names of the tenants of                   *)
(* src/src/tenant.rs: the application puts cache_prefix before a name of   *)
(* its own (src/src/vector/mod.rs:77).  A string is the sequence of its    *)
(* characters.  The module has no state: what CacheAside calls a key is    *)
(* such a full name.                                                       *)
(***************************************************************************)
EXTENDS Integers, Sequences

CONSTANT Letters \* the characters of ids and names other than those of the prefixes

Char == Letters \cup {"p", "e", ":"}

Personal == [kind |-> "personal", id |-> <<>>]
Enterprise(id) == [kind |-> "enterprise", id |-> id]
TenantIds == {Personal} \cup {Enterprise(id) : id \in Seq(Char)}

\* cache_prefix: the id is put in as it is.
CachePrefix(tenant) ==
    IF tenant.kind = "personal" THEN <<"p", ":">>
    ELSE <<"e", ":">> \o tenant.id \o <<":">>

FullName(tenant, name) == CachePrefix(tenant) \o name

\* A tenant whose id does not contain the separator.
Plain(tenant) == \A i \in 1 .. Len(tenant.id) : tenant.id[i] # ":"
=============================================================================
