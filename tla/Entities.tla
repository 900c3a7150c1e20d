------------------------------ MODULE Entities ------------------------------
(***************************************************************************)
(* The data the bundler's components share: addresses, the user operations *)
(* and the roles an address plays in an operation.                         *)
(*                                                                         *)
(* An address reaches the program as a string whose hexadecimal digits may *)
(* be in either case (EIP-55 checksums are mixed case).  Some code compares *)
(* the strings as they came, some code lower-cases them first, and the     *)
(* difference matters: Address is the set of spellings, Lower maps a       *)
(* spelling to its lower-case one, and Account is the set of lower-case    *)
(* spellings, one for each address on the chain.                           *)
(***************************************************************************)
EXTENDS Integers, FiniteSets

CONSTANTS
    Address,    \* spellings of addresses
    Lower,      \* the lower-case spelling of each of them (toLowerCase)
    None,       \* an absent paymaster, factory, aggregator or entry
    Hash,       \* user operation hashes
    UserOp,     \* the user operation with each hash
    Staked      \* accounts with the minimum stake and unstake delay

ASSUME AddressAssumption ==
    /\ Lower \in [Address -> Address]
    /\ \A a \in Address : Lower[Lower[a]] = Lower[a]
    /\ None \notin Address

(* Only the fields some decision reads are kept.  maxCost stands for       *)
(* getUserOpMaxCost: the gas limits of the operation times its maxFeePerGas. *)
UserOps == [sender : Address, nonce : Nat,
            paymaster : Address \cup {None}, factory : Address \cup {None},
            aggregator : Address \cup {None},
            maxPriorityFeePerGas : Nat, maxFeePerGas : Nat, maxCost : Nat]

ASSUME UserOpAssumption ==
    /\ UserOp \in [Hash -> UserOps]
    /\ None \notin Hash

Account == {Lower[a] : a \in Address}

-----------------------------------------------------------------------------
(* The entities of an operation in the order they are checked: account,    *)
(* paymaster, deployer, aggregator.                                        *)
Entity(h, i) ==
    <<UserOp[h].sender, UserOp[h].paymaster, UserOp[h].factory, UserOp[h].aggregator>>[i]

(* Mutant of NextEntity: the checks end at the first role nobody has.      *)
NextEntityInARow(h, i) ==
    IF i < 4 /\ Entity(h, i + 1) # None THEN i + 1 ELSE 5

(* The place of the first entity of h after place i, or 5.                 *)
NextEntity(h, i) ==
    CHOOSE j \in (i + 1)..5 :
        /\ j = 5 \/ Entity(h, j) # None
        /\ \A k \in (i + 1)..(j - 1) : Entity(h, k) = None

(* The account behind an optional address, as a set of at most one.        *)
AccountOf(a) == IF a = None THEN {} ELSE {Lower[a]}

SenderOf(h) == Lower[UserOp[h].sender]

(* The entities of h that are not its sender.                              *)
HelpersOf(h) == AccountOf(UserOp[h].paymaster) \cup AccountOf(UserOp[h].factory)

SameSlot(g, h) ==
    SenderOf(g) = SenderOf(h) /\ UserOp[g].nonce = UserOp[h].nonce

(* checkReplaceUserOp: new >= old * 1.1, a comparison of doubles.          *)
Raises(new, old) == 10 * new >= 11 * old

PaysMore(h, old) ==
    /\ Raises(UserOp[h].maxPriorityFeePerGas, UserOp[old].maxPriorityFeePerGas)
    /\ Raises(UserOp[h].maxFeePerGas, UserOp[old].maxFeePerGas)
=============================================================================
