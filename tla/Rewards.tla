------------------------------- MODULE Rewards -------------------------------
(***************************************************************************)
(* Block rewards and the supply they add up to (reward.rs).  The intervals *)
(* of the chains, of 100,000 blocks and more, are parameters; the closed   *)
(* forms go through them the way the code does.                            *)
(***************************************************************************)
EXTENDS Naturals, Sequences, SequencesExt

CONSTANTS
  HalvingInterval,  \* blocks between two halvings
  BaseReward,       \* reward of the first blocks of a halving chain
  MaxHalvings,      \* 32 in the code: no reward after that many
  DogeInterval,     \* 100,000 blocks
  DogeReward,       \* 1,000,000 coins
  DogeTail,         \* 10,000 coins, from the seventh interval on
  BlocksPerYear,    \* 210,240 blocks of Dash
  DashReward

Networks == {"halving", "doge", "dash", "zero"}

ShiftRight(x, n) == x \div 2^n

Least(x, y) == IF x < y THEN x ELSE y

HalvingBlockReward(height) ==
  LET count == height \div HalvingInterval
  IN  IF count > MaxHalvings THEN 0 ELSE ShiftRight(BaseReward, count)

DogeBlockReward(height) ==
  IF height >= 6 * DogeInterval THEN DogeTail
  ELSE ShiftRight(DogeReward, height \div DogeInterval)

DashYearly(year) == (DashReward * 13^year) \div 14^year

DashBlockReward(height) == DashYearly(height \div BlocksPerYear)

BlockReward(network, height) ==
  CASE network = "halving" -> HalvingBlockReward(height)
    [] network = "doge"    -> DogeBlockReward(height)
    [] network = "dash"    -> DashBlockReward(height)
    [] network = "zero"    -> 0

----------------------------------------------------------------------------
(* The loop over the halvings: i of them are done, blocks are left, and    *)
(* each block of the current interval gets reward.                         *)
RECURSIVE HalvingSum(_, _, _)
HalvingSum(i, blocks, reward) ==
  LET size == Least(HalvingInterval, blocks)
  IN  IF i > MaxHalvings \/ blocks = 0 \/ reward = 0 THEN 0
      ELSE size * reward + HalvingSum(i + 1, blocks - size, ShiftRight(reward, 1))

CumulativeHalving(height) == HalvingSum(0, height + 1, BaseReward)

(* The intervals that begin no later than height, each up to height, then  *)
(* the blocks after the last one.                                          *)
DogeBlocksIn(i, height) ==
  IF height < i * DogeInterval THEN 0
  ELSE Least(height + 1, (i + 1) * DogeInterval) - i * DogeInterval

(* Mutated form: the block at height itself is left out after interval 6.  *)
DogeLeftover_Short(height) ==
  IF height < 6 * DogeInterval THEN 0 ELSE height - 6 * DogeInterval

DogeLeftover(height) ==
  IF height < 6 * DogeInterval THEN 0 ELSE (height + 1) - 6 * DogeInterval

CumulativeDoge(height) ==
  FoldLeft(LAMBDA sum, n :
             sum + DogeBlocksIn(n - 1, height) * ShiftRight(DogeReward, n - 1),
           DogeLeftover(height) * DogeTail, [n \in 1 .. 6 |-> n])

CumulativeDash(height) ==
  LET years == height \div BlocksPerYear
  IN  FoldLeft(LAMBDA sum, n : sum + DashYearly(n - 1) * BlocksPerYear,
               DashYearly(years) * ((height % BlocksPerYear) + 1),
               [n \in 1 .. years |-> n])

CumulativeReward(network, height) ==
  CASE network = "halving" -> CumulativeHalving(height)
    [] network = "doge"    -> CumulativeDoge(height)
    [] network = "dash"    -> CumulativeDash(height)
    [] network = "zero"    -> 0

(* The supply is what the blocks up to that height were rewarded.          *)
SupplyAddsUp(network, height) ==
  CumulativeReward(network, height) =
    FoldLeft(LAMBDA sum, n : sum + BlockReward(network, n - 1), 0,
             [n \in 1 .. (height + 1) |-> n])
=============================================================================
