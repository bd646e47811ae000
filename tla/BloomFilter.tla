---------------------------- MODULE BloomFilter ----------------------------
(***************************************************************************)
(* fc::bloom_filter (bloom_filter.hpp): filters that clients fill, copy,   *)
(* clear and combine.  The hash of an element under a salt is external and *)
(* given by the constant HashAp; what the floating-point search finds best *)
(* is part of the parameters, and the code then rounds and clamps it.      *)
(*                                                                         *)
(* A size clamped to a limit need not be whole cells.  Its last bits are   *)
(* then behind the allocated table: nothing keeps what is written there,   *)
(* and what is read from there is undefined, either value here.            *)
(***************************************************************************)
EXTENDS FiniteSets, Integers

CONSTANTS Filter, Element,
          Salts,       \* the salts in the order they are taken: 1..Salts
          HashAp,      \* salt -> element -> hash
          Cell,        \* bits of a cell of the table
          Params,      \* parameter sets: the best size and hashes, their limits, a seed
          MaxInserts

\* A size in whole cells.
Rounded(best) == best + (IF best % Cell # 0 THEN Cell - (best % Cell) ELSE 0)
Clamped(x, low, high) == IF x < low THEN low ELSE IF x > high THEN high ELSE x

ASSUME BloomAssumption ==
  /\ {Cell, Salts, MaxInserts} \subseteq Nat \ {0}
  /\ \A p \in Params : /\ {p.best, p.hashes, p.min_size, p.max_size, p.min_hashes, p.max_hashes} \subseteq Nat
                       /\ Clamped(p.hashes, p.min_hashes, p.max_hashes) <= Salts
  /\ \A p \in Params, i \in 1..Salts, e \in Element : HashAp[p.seed][i][e] \in Nat

VARIABLES filter,      \* the filters
          members      \* history: the elements a filter must still contain

bloomVars == <<filter, members>>

---------------------------------------------------------------------------
(* Parameters and tables. *)

\* bloom_parameters::operator!: limits that exclude each other, or no hashes;
\* "sane" stands for the checks of the element count, the probability and the seed.
Invalid(p) ==
  \/ p.min_size > p.max_size \/ p.min_hashes > p.max_hashes
  \/ p.min_hashes < 1 \/ p.max_hashes = 0 \/ ~p.sane

\* compute_optimal_parameters: whole cells, then within the limits; invalid
\* parameters leave the zeros of optimal_parameters_t.
compute_optimal_parameters(p) ==
  IF Invalid(p) THEN [hashes |-> 0, size |-> 0]
  ELSE [hashes |-> Clamped(p.hashes, p.min_hashes, p.max_hashes),
        size |-> Clamped(Rounded(p.best), p.min_size, p.max_size)]

\* The salts of a filter: the first of the predefined ones, made its own by
\* the seed.  (They also differ with their number; filters with other numbers
\* never combine, so salts are compared only among equally many.)
generate_unique_salt(hashes, seed) == {<<seed, i>> : i \in 1..hashes}

Hash(salt, e) == HashAp[salt[1]][salt[2]][e]

\* compute_indices: the cell and the bit in it.
compute_indices(hash, table_size) ==
  LET bit_index == hash % table_size
  IN  <<bit_index \div Cell, bit_index % Cell>>

\* The bits of an element in a filter.
BitsOf(f, e) == {compute_indices(Hash(s, e), f.table_size) : s \in f.salt}

\* The bits that are allocated: raw_table_size_ cells.
raw_table_size(f) == f.table_size \div Cell
Table(f) == {<<c, b>> : c \in 0..raw_table_size(f) - 1, b \in 0..Cell - 1}

\* A filter without bits but with hashes divides by zero when it is used.
Usable(f) == f.table_size # 0 \/ f.salt = {}

Blank(p) ==
  LET o == compute_optimal_parameters(p)
  IN  [seed |-> p.seed, table_size |-> o.size, salt |-> generate_unique_salt(o.hashes, p.seed),
       bits |-> {}, inserted |-> 0]

\* What contains() may answer: any set of the bits behind the table reads as set.
contains(f, e) ==
  {BitsOf(f, e) \ stray \subseteq f.bits : stray \in SUBSET (BitsOf(f, e) \ Table(f))}

\* Mutant: the seeds are not compared.
Compatible_AnySeed(f, g) ==
  Cardinality(f.salt) = Cardinality(g.salt) /\ f.table_size = g.table_size
\* Two filters combine only if they have the same hashes, size and seed.
Compatible(f, g) ==
  /\ Cardinality(f.salt) = Cardinality(g.salt)
  /\ f.table_size = g.table_size /\ f.seed = g.seed

---------------------------------------------------------------------------
(* Operations. *)

BloomInit ==
  /\ filter \in [Filter -> {Blank(p) : p \in Params}]
  /\ members = [f \in Filter |-> {}]

\* insert: the bits of every salt are set, those behind the table for nothing.
insert(f, e) ==
  /\ filter[f].inserted < MaxInserts
  /\ Usable(filter[f])
  /\ filter' = [filter EXCEPT ![f].bits = @ \cup (BitsOf(filter[f], e) \cap Table(filter[f])),
                              ![f].inserted = @ + 1]
  /\ members' = [members EXCEPT ![f] = @ \cup {e}]

clear(f) ==
  /\ filter' = [filter EXCEPT ![f].bits = {}, ![f].inserted = 0]
  /\ members' = [members EXCEPT ![f] = {}]

\* operator = ; assignment to itself changes nothing.
Assign(f, g) ==
  /\ filter' = [filter EXCEPT ![f] = filter[g]]
  /\ members' = [members EXCEPT ![f] = members[g]]

\* operator &=, |= and ^=: nothing happens to filters that do not match.
Combine(f, g, bits, kept) ==
  IF Compatible(filter[f], filter[g])
  THEN /\ filter' = [filter EXCEPT ![f].bits = bits]
       /\ members' = [members EXCEPT ![f] = kept]
  ELSE UNCHANGED bloomVars

Intersect(f, g) ==
  Combine(f, g, filter[f].bits \cap filter[g].bits, members[f] \cap members[g])

Unite(f, g) ==
  Combine(f, g, filter[f].bits \cup filter[g].bits, members[f] \cup members[g])

\* The difference loses the bits the filters share: nothing is promised.
Differ(f, g) ==
  Combine(f, g, (filter[f].bits \cup filter[g].bits) \ (filter[f].bits \cap filter[g].bits), {})

BloomNext ==
  \E f \in Filter :
    \/ \E e \in Element : insert(f, e)
    \/ clear(f)
    \/ \E g \in Filter : Assign(f, g) \/ Intersect(f, g) \/ Unite(f, g) \/ Differ(f, g)

BloomSpec == BloomInit /\ [][BloomNext]_bloomVars

---------------------------------------------------------------------------
(* Properties *)

\* A filter never denies an element that was put into it, through copies,
\* unions and intersections as well, unless a bit of it lies behind the table.
NoFalseNegative ==
  \A f \in Filter : \A e \in members[f] :
    BitsOf(filter[f], e) \subseteq Table(filter[f]) => contains(filter[f], e) = {TRUE}

\* The indices computed for an element reach at most one cell behind the table
\* that was allocated, whatever the parameters ask for, and not even that one
\* when the size is whole cells.
IndexInTable ==
  \A f \in Filter : Usable(filter[f]) => \A e \in Element :
    /\ \A b \in BitsOf(filter[f], e) : b[1] \in 0..raw_table_size(filter[f])
    /\ filter[f].table_size % Cell = 0 => BitsOf(filter[f], e) \subseteq Table(filter[f])

\* Every element that was inserted is found, and no bit is looked up outside the
\* table of a filter of whole cells.
FilterSound == NoFalseNegative /\ IndexInTable
=============================================================================
