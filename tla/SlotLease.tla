----------------------------- MODULE SlotLease ------------------------------
(***************************************************************************)
(* What the slot protocol promises while no instance is robbed: a slot has *)
(* at most one tenant, a tenant has at most one slot, and a slot goes from *)
(* one tenant to the next only by being vacant in between - a tenant       *)
(* leaves, it is never evicted in favour of another.  The harsh lease is   *)
(* what is left of that with robberies.                                    *)
(***************************************************************************)
EXTENDS Integers

CONSTANTS Slots, Tenants, None

VARIABLE tenant   \* [Slots -> Tenants \cup {None}]

LeaseInit == tenant = [i \in Slots |-> None]

Rent(i, a) ==
  /\ tenant[i] = None
  /\ \A j \in Slots : tenant[j] # a
  /\ tenant' = [tenant EXCEPT ![i] = a]

Vacate(i) ==
  /\ tenant[i] # None
  /\ tenant' = [tenant EXCEPT ![i] = None]

\* The process of all tenants dies.
VacateAll == tenant' = [i \in Slots |-> None]

\* Not promised, but what a theft does: a tenant is replaced by another that
\* had no slot.
Evict(i, a) ==
  /\ tenant[i] \notin {None, a}
  /\ \A j \in Slots : tenant[j] # a
  /\ tenant' = [tenant EXCEPT ![i] = a]

LeaseNext ==
  \/ \E i \in Slots : (\E a \in Tenants : Rent(i, a)) \/ Vacate(i)
  \/ VacateAll

LeaseSpec == LeaseInit /\ [][LeaseNext]_tenant

\* The lease of a landlord who may also evict.
HarshLeaseNext == LeaseNext \/ \E i \in Slots, a \in Tenants : Evict(i, a)

HarshLeaseSpec == LeaseInit /\ [][HarshLeaseNext]_tenant

=============================================================================
