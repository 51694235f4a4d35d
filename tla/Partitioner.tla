---------------------------- MODULE Partitioner ----------------------------
(***************************************************************************)
(* RoundRobinPartitioner: the blocks 0..num_vpages-1 dealt out in turn to  *)
(* num_partitions partitions (the files of a backend, the servers of the   *)
(* shared cache, the sets of the private and the direct cache).            *)
(***************************************************************************)
EXTENDS Integers

CONSTANTS num_partitions, num_vpages

ASSUME PartitionsAssumption == num_partitions \in Nat \ {0} /\ num_vpages \in Nat

\* rows of num_partitions + 1 pages
AddressWideRow(id) == <<id % num_partitions, id \div (num_partitions + 1)>>

\* operator()(vpage_id): partition and block within the partition
Address(id) == <<id % num_partitions, id \div num_partitions>>

\* num_blocks(partition_id)
num_blocks(p) ==
    num_vpages \div num_partitions + IF p < num_vpages % num_partitions THEN 1 ELSE 0

\* operator()(partition_id, block_id): back to the page
Page(p, b) == b * num_partitions + p

Partitions == 0 .. num_partitions - 1
Addresses == UNION {{<<p, b>> : b \in 0 .. num_blocks(p) - 1} : p \in Partitions}
=============================================================================
