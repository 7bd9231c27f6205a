------------------------------ MODULE MCRates ------------------------------
(* Values of the constants of Rates for TLC.                                *)
EXTENDS Rates

CONSTANTS cpu, sda, sdb, eth, tun, lo

\* A blacklist that names no interface: the automatic filter decides.
MCNicConfig == [nics |-> {}, blacklist |-> TRUE]

\* The CPU, the disks and the interfaces share nothing but the time and the mutex.
MCMachines == {{cpu}, {sda, sdb}, {eth, tun, lo}}

=============================================================================
