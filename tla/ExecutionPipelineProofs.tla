---------------------- MODULE ExecutionPipelineProofs ----------------------
(***************************************************************************)
(* What the node and the chain promise for every set of addresses and      *)
(* transactions, every policy of the pool and every setting of the fee     *)
(* rule.                                                                   *)
(***************************************************************************)
EXTENDS ExecutionPipeline, FoldProofs, SequenceTheorems, TLAPS

Accounts == [Address -> [balance : Nat, nonce : Nat]]

Results == [valid : BOOLEAN, accounts : Accounts, gas : 0..BlockGasLimit,
            fees : Nat, seen : SUBSET Nat]

Txs == [sender : Address, recipient : Address, nonce : Nat, value : Nat,
        gas : Nat, cap : Nat, tip : Nat, hash : Nat]

LEMMA TxFacts ==
  ASSUME NEW tx \in Transactions
  PROVE  /\ tx.sender \in Address /\ tx.recipient \in Address
         /\ tx.nonce \in Nat /\ tx.value \in Nat /\ tx.gas \in Nat
         /\ tx.cap \in Nat /\ tx.tip \in Nat /\ tx.hash \in Nat
<1>1. tx \in Txs
  BY PipelineAssumption DEF Txs
<1> QED
  BY <1>1 DEF Txs

LEMMA KernelFacts ==
  /\ BlockGasLimit \in Nat \ {0} /\ TargetGas \in Nat \ {0}
  /\ IntrinsicGas \in Nat \ {0} /\ FeeDenominator \in Nat \ {0}
  BY KernelAssumption

----------------------------------------------------------------------------
\* The base fee stays positive.
LEMMA Quotient ==
  ASSUME NEW a \in Nat, NEW b \in Nat \ {0}
  PROVE  a \div b \in Nat
  OBVIOUS

LEMMA FeeDeltaType ==
  ASSUME NEW fee \in Nat, NEW distance \in Nat
  PROVE  FeeDelta(fee, distance) \in Nat
<1>1. fee * distance \in Nat
  OBVIOUS
<1>2. (fee * distance) \div TargetGas \in Nat
  BY <1>1, KernelFacts, Quotient
<1> QED
  BY <1>2, KernelFacts, Quotient DEF FeeDelta

LEMMA NextBaseFeeType ==
  ASSUME NEW fee \in Nat \ {0}, NEW gas \in Nat
  PROVE  NextBaseFee(fee, gas) \in Nat \ {0}
<1>1. CASE gas = TargetGas
  BY <1>1, KernelFacts DEF NextBaseFee
<1>2. CASE gas > TargetGas
  <2>1. FeeDelta(fee, gas - TargetGas) \in Nat
    BY <1>2, KernelFacts, FeeDeltaType
  <2>2. NextBaseFee(fee, gas) = fee + Greater(FeeDelta(fee, gas - TargetGas), 1)
    BY <1>2, KernelFacts DEF NextBaseFee
  <2> QED
    BY <2>1, <2>2 DEF Greater
<1>3. CASE gas < TargetGas
  <2>1. FeeDelta(fee, TargetGas - gas) \in Nat
    BY <1>3, KernelFacts, FeeDeltaType
  <2>2. NextBaseFee(fee, gas) = Greater(fee - FeeDelta(fee, TargetGas - gas), 1)
    BY <1>3, KernelFacts DEF NextBaseFee
  <2> QED
    BY <2>1, <2>2 DEF Greater
<1> QED
  BY <1>1, <1>2, <1>3, KernelFacts

\* What an accepted transaction costs.
LEMMA FeeType ==
  ASSUME NEW tx \in Transactions, NEW fee \in Nat, fee <= tx.cap
  PROVE  Fee(tx, fee) \in Nat
<1>1. Reward(tx, fee) \in Nat
  BY TxFacts DEF Reward, Smaller
<1>2. fee + Reward(tx, fee) \in Nat
  BY <1>1
<1> QED
  BY <1>2, KernelFacts DEF Fee

----------------------------------------------------------------------------
(***************************************************************************)
(* One transaction.                                                        *)
(***************************************************************************)
LEMMA TransferFacts ==
  ASSUME NEW accounts \in Accounts, NEW tx \in Transactions, NEW fee \in Nat,
         fee <= tx.cap,
         accounts[tx.sender].balance >= tx.value + Fee(tx, fee)
  PROVE  LET new == Transfer(accounts, tx, fee) IN
         /\ new \in Accounts
         /\ \A a \in Address \ {tx.sender, tx.recipient} : new[a] = accounts[a]
         /\ new[tx.recipient] =
              [balance |-> accounts[tx.recipient].balance + tx.value,
               nonce |-> accounts[tx.recipient].nonce]
         /\ tx.sender # tx.recipient =>
              new[tx.sender] =
                [balance |-> accounts[tx.sender].balance - tx.value - Fee(tx, fee),
                 nonce |-> accounts[tx.sender].nonce + 1]
<1> DEFINE s == tx.sender
           r == tx.recipient
           paid == [balance |-> accounts[s].balance - tx.value - Fee(tx, fee),
                    nonce |-> accounts[s].nonce + 1]
           got == [balance |-> accounts[r].balance + tx.value,
                   nonce |-> accounts[r].nonce]
<1>1. /\ s \in Address /\ r \in Address /\ tx.value \in Nat
      /\ Fee(tx, fee) \in Nat
  BY TxFacts, FeeType
<1>2. /\ accounts[s].balance \in Nat /\ accounts[s].nonce \in Nat
      /\ accounts[r].balance \in Nat /\ accounts[r].nonce \in Nat
  BY <1>1 DEF Accounts
<1>3. paid \in [balance : Nat, nonce : Nat] /\ got \in [balance : Nat, nonce : Nat]
  BY <1>1, <1>2
<1>4. Transfer(accounts, tx, fee) = [accounts EXCEPT ![s] = paid, ![r] = got]
  BY DEF Transfer
<1> HIDE DEF paid, got
<1>5. Transfer(accounts, tx, fee) \in Accounts
  BY <1>1, <1>3, <1>4 DEF Accounts
<1> QED
  BY <1>1, <1>4, <1>5 DEF Accounts, paid, got

LEMMA ApplyType ==
  ASSUME NEW result \in Results, NEW tx \in Transactions, NEW fee \in Nat
  PROVE  ApplyTransaction(result, tx, fee) \in Results
<1>1. CASE ~(result.valid /\ Acceptable(result, tx, fee))
  BY <1>1 DEF ApplyTransaction, Results
<1>2. CASE result.valid /\ Acceptable(result, tx, fee)
  <2>1. /\ fee <= tx.cap /\ result.gas + IntrinsicGas <= BlockGasLimit
        /\ result.accounts[tx.sender].balance >= tx.value + Fee(tx, fee)
    BY <1>2 DEF Acceptable
  <2>2. /\ result.accounts \in Accounts /\ result.gas \in Nat
        /\ result.fees \in Nat /\ result.seen \in SUBSET Nat
    BY KernelFacts DEF Results
  <2>3. Transfer(result.accounts, tx, fee) \in Accounts
    BY <2>1, <2>2, TransferFacts
  <2>4. /\ Fee(tx, fee) \in Nat /\ tx.hash \in Nat
        /\ result.gas + IntrinsicGas \in 0..BlockGasLimit
    BY <2>1, <2>2, FeeType, TxFacts, KernelFacts
  <2>5. ApplyTransaction(result, tx, fee) =
          [valid    |-> TRUE,
           accounts |-> Transfer(result.accounts, tx, fee),
           gas      |-> result.gas + IntrinsicGas,
           fees     |-> result.fees + Fee(tx, fee),
           seen     |-> result.seen \cup {tx.hash}]
    BY <1>2 DEF ApplyTransaction
  <2> QED
    BY <2>2, <2>3, <2>4, <2>5 DEF Results
<1> QED
  BY <1>1, <1>2

----------------------------------------------------------------------------
(***************************************************************************)
(* The transactions of a block in order: run[i] is what the first i give.  *)
(***************************************************************************)
LEMMA MaxFacts ==
  ASSUME NEW n \in Nat, NEW s \in SUBSET (1..n), s # {}
  PROVE  Max(s) \in s /\ \A y \in s : y <= Max(s)
<1> DEFINE B == {k \in Nat : \A y \in s : y <= k}
<1>1. B \subseteq Nat /\ n \in B
  OBVIOUS
<1> HIDE DEF B
<1>2. PICK m \in B : \A k \in B : m <= k
  BY <1>1, LeastNumber
<1>3. m \in Nat /\ \A y \in s : y <= m
  BY <1>2 DEF B
<1>4. ASSUME m \notin s PROVE FALSE
  <2>a. PICK y \in s : TRUE
    OBVIOUS
  <2>b. \A z \in s : z \in Nat /\ 1 <= z
    OBVIOUS
  <2>0. y \in Nat /\ 1 <= y /\ y <= m
    BY <1>3, <2>a, <2>b
  <2>1. m - 1 \in Nat /\ \A z \in s : z \in Nat /\ z <= m /\ z # m
    BY <1>3, <1>4, <2>0
  <2>2. m - 1 \in B
    <3>1. \A z \in s : z <= m - 1
      BY <1>3, <2>1
    <3> QED
      BY <2>1, <3>1 DEF B
  <2> QED
    BY <1>2, <1>3, <2>2
<1>5. m \in s /\ \A y \in s : m >= y
  BY <1>3, <1>4
<1>6. \E x \in s : \A y \in s : x >= y
  BY <1>5
<1> QED
  BY <1>6 DEF Max

Start(accounts) ==
  [valid |-> TRUE, accounts |-> accounts, gas |-> 0, fees |-> 0, seen |-> {}]

IsRun(run, accounts, txs, fee) ==
  /\ run \in [0..Len(txs) -> Results]
  /\ run[0] = Start(accounts)
  /\ \A i \in 1..Len(txs) : run[i] = ApplyTransaction(run[i - 1], txs[i], fee)

LEMMA StartType ==
  ASSUME NEW accounts \in Accounts
  PROVE  Start(accounts) \in Results
  BY KernelFacts DEF Start, Results

\* The fold is the last entry of a run.
LEMMA RunExists ==
  ASSUME NEW accounts \in Accounts, NEW txs \in Seq(Transactions), NEW fee \in Nat
  PROVE  \E run : /\ IsRun(run, accounts, txs, fee)
                  /\ ExecuteBlock(accounts, txs, fee) = run[Len(txs)]
<1> DEFINE n == Len(txs)
           S == 1..n
           base == Start(accounts)
           pick == [s \in SUBSET S |-> Max(s)]
           step == [p \in S \X Results |-> ApplyTransaction(p[2], txs[p[1]], fee)]
           Iter(f) == [s \in SUBSET S |->
                         IF s = {} THEN base
                         ELSE ApplyTransaction(f[s \ {Max(s)}], txs[Max(s)], fee)]
           iter == CHOOSE f : f = Iter(f)
<1>1. n \in Nat /\ DOMAIN txs = S /\ \A i \in S : txs[i] \in Transactions
  OBVIOUS
<1>2. IsFiniteSet(S)
  BY <1>1, FS_Interval
<1>3. \A s \in SUBSET S : s # {} => Max(s) \in s /\ \A y \in s : y <= Max(s)
  BY <1>1, MaxFacts
<1>4. Picks(pick, S)
  BY <1>3 DEF Picks
<1>5. step \in [S \X Results -> Results]
  <2>1. \A i \in S : \A r \in Results :
          ApplyTransaction(r, txs[i], fee) \in Results
    BY <1>1, ApplyType
  <2> QED
    BY <2>1
<1>6. base \in Results
  BY StartType
<1> HIDE DEF S, base, pick, step
<1>7. PICK g \in [SUBSET S -> Results] : Recursion(g, S, base, pick, step)
  BY <1>2, <1>4, <1>5, <1>6, RecursionExists
<1>8. \A s \in SUBSET S : s # {} =>
        g[s] = ApplyTransaction(g[s \ {Max(s)}], txs[Max(s)], fee)
  <2> SUFFICES ASSUME NEW s \in SUBSET S, s # {}
               PROVE  g[s] = ApplyTransaction(g[s \ {Max(s)}], txs[Max(s)], fee)
    OBVIOUS
  <2>1. PICK m : m = Max(s)
    OBVIOUS
  <2>2. m \in s /\ pick[s] = m
    BY <1>3, <2>1 DEF pick
  <2>3. g[s \ {m}] \in Results /\ m \in S
    BY <2>2
  <2>4. g[s] = step[<<m, g[s \ {m}]>>]
    BY <1>7, <2>2 DEF Recursion
  <2>5. g[s] = ApplyTransaction(g[s \ {m}], txs[m], fee)
    BY <2>3, <2>4 DEF step
  <2> QED
    BY <2>1, <2>5
<1>9. g[{}] = base
  BY <1>7 DEF Recursion
<1>10. g = Iter(g)
  BY <1>8, <1>9
<1>11. iter = Iter(iter)
  <2> HIDE DEF Iter
  <2> QED
    BY <1>10
<1>12. ExecuteBlock(accounts, txs, fee) = iter[S]
  BY <1>1 DEF ExecuteBlock, FoldLeft, MapThenFoldSet, Start, S, base
<1> HIDE DEF iter
<1>13. /\ iter[{}] = base
       /\ \A s \in SUBSET S : s # {} =>
            iter[s] = ApplyTransaction(iter[s \ {Max(s)}], txs[Max(s)], fee)
  <2>1. \A s \in SUBSET S : Iter(iter)[s] =
          IF s = {} THEN base
          ELSE ApplyTransaction(iter[s \ {Max(s)}], txs[Max(s)], fee)
    OBVIOUS
  <2> HIDE DEF Iter
  <2>2. \A s \in SUBSET S : iter[s] = Iter(iter)[s]
    BY <1>11
  <2> QED
    BY <2>1, <2>2
<1> DEFINE run == [k \in 0..n |-> iter[1..k]]
<1>14. \A k \in 1..n : /\ 1..k \in SUBSET S /\ 1..k # {}
                       /\ Max(1..k) = k /\ (1..k) \ {k} = 1..(k - 1)
  <2> SUFFICES ASSUME NEW k \in 1..n
               PROVE  /\ 1..k \in SUBSET S /\ 1..k # {}
                      /\ Max(1..k) = k /\ (1..k) \ {k} = 1..(k - 1)
    OBVIOUS
  <2>0. n \in Nat /\ k \in Nat /\ 1 <= k /\ k <= n
    BY <1>1
  <2>1. 1..k \in SUBSET S /\ 1..k # {} /\ k \in 1..k /\ k \in Nat
    <3>1. S = 1..n
      BY DEF S
    <3> HIDE DEF n
    <3>2. 1..k \subseteq 1..n /\ k \in 1..k
      BY <2>0
    <3> QED
      BY <2>0, <3>1, <3>2
  <2>2. PICK s : s = 1..k
    OBVIOUS
  <2>3. Max(s) \in s /\ k <= Max(s)
    BY <1>3, <2>1, <2>2
  <2>4. Max(1..k) = k
    BY <2>1, <2>2, <2>3
  <2>5. (1..k) \ {k} = 1..(k - 1)
    BY <2>1
  <2> QED
    BY <2>1, <2>4, <2>5
<1>15. run[0] = base /\ run[n] = iter[S]
  <2>1. 1..0 = {}
    OBVIOUS
  <2> QED
    BY <1>1, <1>13, <2>1 DEF S
<1>16. \A k \in 1..n : run[k] = ApplyTransaction(run[k - 1], txs[k], fee)
  <2> SUFFICES ASSUME NEW k \in 1..n
               PROVE  run[k] = ApplyTransaction(run[k - 1], txs[k], fee)
    OBVIOUS
  <2>1. PICK s, r : s = 1..k /\ r = 1..(k - 1)
    OBVIOUS
  <2>2. s \in SUBSET S /\ s # {} /\ Max(s) = k /\ s \ {k} = r
    BY <1>14, <2>1
  <2>3. iter[s] = ApplyTransaction(iter[r], txs[k], fee)
    BY <1>13, <2>2
  <2>4. run[k] = iter[s] /\ run[k - 1] = iter[r]
    BY <1>1, <2>1
  <2> QED
    BY <2>3, <2>4
<1> DEFINE C == {k \in 0..n : run[k] \notin Results}
<1>17. C = {}
  <2> SUFFICES ASSUME C # {} PROVE FALSE
    OBVIOUS
  <2>0. C \subseteq Nat
    BY <1>1
  <2> HIDE DEF C
  <2>1. PICK k \in C : \A j \in C : k <= j
    BY <2>0, LeastNumber
  <2> HIDE DEF run
  <2>2. k \in 0..n /\ run[k] \notin Results
    BY <2>1 DEF C
  <2>3. k # 0
    BY <1>6, <1>15, <2>2
  <2>4. k \in 1..n /\ k - 1 \in 0..n /\ k - 1 \notin C
    BY <1>1, <2>0, <2>1, <2>2, <2>3
  <2>5. run[k - 1] \in Results /\ txs[k] \in Transactions
    BY <1>1, <2>4 DEF C, S
  <2> QED
    BY <1>16, <2>2, <2>4, <2>5, ApplyType
<1>18. run \in [0..n -> Results]
  BY <1>17
<1> HIDE DEF run
<1>19. IsRun(run, accounts, txs, fee)
  BY <1>15, <1>16, <1>18 DEF IsRun, base
<1> QED
  BY <1>12, <1>15, <1>19

\* A run of the first transactions is the beginning of the run.
LEMMA RunPrefix ==
  ASSUME NEW accounts, NEW txs, NEW us, NEW fee, NEW run, NEW first,
         Len(txs) \in Nat, Len(us) \in Nat, Len(us) <= Len(txs),
         \A i \in 1..Len(us) : us[i] = txs[i],
         IsRun(run, accounts, txs, fee), IsRun(first, accounts, us, fee)
  PROVE  \A i \in 0..Len(us) : first[i] = run[i]
<1> DEFINE B == {i \in 0..Len(us) : first[i] # run[i]}
<1> SUFFICES ASSUME B # {} PROVE FALSE
  OBVIOUS
<1>0. B \subseteq Nat
  OBVIOUS
<1> HIDE DEF B
<1>1. PICK k \in B : \A j \in B : k <= j
  BY <1>0, LeastNumber
<1>2. k \in 0..Len(us) /\ first[k] # run[k]
  BY <1>1 DEF B
<1>3. k # 0
  BY <1>2 DEF IsRun
<1>4. k \in 1..Len(us) /\ k - 1 \in 0..Len(us) /\ k - 1 \notin B /\ k \in 1..Len(txs)
  BY <1>0, <1>1, <1>2, <1>3
<1>5. first[k - 1] = run[k - 1]
  BY <1>4 DEF B
<1> QED
  BY <1>2, <1>4, <1>5 DEF IsRun

LEMMA ExecuteBlockRun ==
  ASSUME NEW accounts \in Accounts, NEW txs \in Seq(Transactions), NEW fee \in Nat
  PROVE  \E run :
           /\ IsRun(run, accounts, txs, fee)
           /\ ExecuteBlock(accounts, txs, fee) = run[Len(txs)]
           /\ \A i \in 0..Len(txs) :
                ExecuteBlock(accounts, SubSeq(txs, 1, i), fee) = run[i]
<1>1. PICK run : /\ IsRun(run, accounts, txs, fee)
                 /\ ExecuteBlock(accounts, txs, fee) = run[Len(txs)]
  BY RunExists
<1>2. ASSUME NEW i \in 0..Len(txs)
      PROVE  ExecuteBlock(accounts, SubSeq(txs, 1, i), fee) = run[i]
  <2>1. PICK us : us = SubSeq(txs, 1, i)
    OBVIOUS
  <2>2. /\ us \in Seq(Transactions) /\ Len(us) = i
        /\ \A j \in 1..i : us[j] = txs[j]
    BY <2>1
  <2>3. PICK first : /\ IsRun(first, accounts, us, fee)
                     /\ ExecuteBlock(accounts, us, fee) = first[Len(us)]
    BY <2>2, RunExists
  <2>4. \A j \in 0..Len(us) : first[j] = run[j]
    BY <1>1, <2>2, <2>3, RunPrefix
  <2> QED
    BY <2>1, <2>2, <2>3, <2>4
<1> QED
  BY <1>1, <1>2

----------------------------------------------------------------------------
(***************************************************************************)
(* The candidate.  A finite set of transactions has a best one: of two the *)
(* hashes decide when the rewards are equal.                               *)
(***************************************************************************)
Better(t, u, fee) ==
  \/ Reward(t, fee) > Reward(u, fee)
  \/ Reward(t, fee) = Reward(u, fee) /\ t.hash < u.hash

LEMMA BetterOrders ==
  ASSUME NEW fee \in Nat
  PROVE  /\ \A t, u \in Transactions : t # u => Better(t, u, fee) \/ Better(u, t, fee)
         /\ \A t, u, w \in Transactions :
              Better(t, u, fee) /\ Better(u, w, fee) => Better(t, w, fee)
<1>1. \A t \in Transactions : Reward(t, fee) \in Int /\ t.hash \in Nat
  BY TxFacts DEF Reward, Smaller
<1>2. \A t, u \in Transactions : t # u => t.hash # u.hash
  BY PipelineAssumption
<1> QED
  BY <1>1, <1>2 DEF Better

LEMMA BestOfType ==
  ASSUME NEW txs \in SUBSET Transactions, IsFiniteSet(txs), txs # {}, NEW fee \in Nat
  PROVE  BestOf(txs, fee) \in txs
<1> DEFINE Best(x, T) == \A y \in T \ {x} : Better(x, y, fee)
           B == {T \in SUBSET txs : T # {} /\ ~\E x \in T : Best(x, T)}
<1>1. B = {}
  <2> SUFFICES ASSUME B # {} PROVE FALSE
    OBVIOUS
  <2>0. B \subseteq SUBSET txs
    OBVIOUS
  <2> HIDE DEF B
  <2>1. PICK T \in B : \A U \in B : U \subseteq T => U = T
    BY <2>0, MinimalSet
  <2>2. T \in SUBSET txs /\ T # {} /\ ~\E x \in T : Best(x, T)
    BY <2>1 DEF B
  <2>3. PICK x \in T : TRUE
    BY <2>2
  <2> DEFINE R == T \ {x}
  <2>4. R # {}
    BY <2>2, <2>3
  <2>5. R \in SUBSET txs /\ R \notin B
    BY <2>1, <2>2, <2>3
  <2>6. PICK y \in R : Best(y, R)
    BY <2>4, <2>5 DEF B
  <2>7. x \in Transactions /\ y \in Transactions /\ x # y /\ T \subseteq Transactions
    BY <2>2, <2>3, <2>6
  <2>8. CASE Better(y, x, fee)
    <3>1. Best(y, T)
      BY <2>6, <2>8
    <3> QED
      BY <2>2, <2>6, <3>1
  <2>9. CASE Better(x, y, fee)
    <3>1. \A z \in R \ {y} : Better(x, z, fee)
      BY <2>6, <2>7, <2>9, BetterOrders
    <3>2. Best(x, T)
      BY <2>9, <3>1
    <3> QED
      BY <2>2, <2>3, <3>2
  <2> QED
    BY <2>7, <2>8, <2>9, BetterOrders
<1>2. \E x \in txs : Best(x, txs)
  BY <1>1
<1>3. BestOf(txs, fee) = CHOOSE x \in txs : Best(x, txs)
  BY DEF BestOf, Better
<1> QED
  BY <1>2, <1>3

\* Every transaction of a selection has the nonce its sender is at.
InNonceOrder(txs, accounts, fee) ==
  \A i \in DOMAIN txs :
    /\ txs[i].cap >= fee
    /\ txs[i].nonce = NextNonce(accounts, SubSeq(txs, 1, i - 1), txs[i].sender)

BlockLength == BlockGasLimit \div IntrinsicGas

LEMMA BlockLengthFits == BlockLength \in Nat /\ BlockLength * IntrinsicGas <= BlockGasLimit
  BY KernelFacts DEF BlockLength

LEMMA CandidateFacts ==
  ASSUME NEW txs \in SUBSET Transactions, IsFiniteSet(txs), NEW accounts,
         NEW fee \in Nat
  PROVE  LET selected == Candidate(txs, accounts, fee) IN
         /\ selected \in Seq(txs) /\ Len(selected) <= BlockLength
         /\ InNonceOrder(selected, accounts, fee)
<1> DEFINE L == BlockLength
           next(c) == NextOfSenders(txs, accounts, c, fee)
           V == {c \in Seq(txs) : InNonceOrder(c, accounts, fee)}
           more(c) == IF next(c) = {} THEN c ELSE Append(c, BestOf(next(c), fee))
           step == [c \in V |-> more(c)]
           Chosen(f) == [k \in 0..L |-> IF k = 0 THEN <<>> ELSE more(f[k - 1])]
           chosen == CHOOSE f : f = Chosen(f)
<1>1. L \in Nat
  BY BlockLengthFits
<1>2. <<>> \in V
  BY DEF InNonceOrder
<1>3. ASSUME NEW c \in V PROVE more(c) \in V
  <2>1. CASE next(c) = {}
    BY <2>1
  <2>2. CASE next(c) # {}
    <3>1. next(c) \in SUBSET Transactions /\ next(c) \subseteq txs /\ IsFiniteSet(next(c))
      <4>1. next(c) \subseteq txs
        BY DEF NextOfSenders
      <4> QED
        BY <4>1, FS_Subset
    <3>2. PICK b : b = BestOf(next(c), fee) /\ b \in next(c)
      BY <2>2, <3>1, BestOfType
    <3>3. /\ b \in txs /\ b.cap >= fee
          /\ b.nonce = NextNonce(accounts, c, b.sender)
      BY <3>2 DEF NextOfSenders
    <3>4. PICK d : d = Append(c, b)
      OBVIOUS
    <3>5. /\ c \in Seq(txs) /\ d \in Seq(txs) /\ DOMAIN d = 1..(Len(c) + 1)
          /\ Len(c) \in Nat /\ DOMAIN c = 1..Len(c)
          /\ d[Len(c) + 1] = b /\ \A i \in 1..Len(c) : d[i] = c[i]
      BY <3>3, <3>4
    <3>6. \A i \in 1..Len(c) + 1 : SubSeq(d, 1, i - 1) = SubSeq(c, 1, i - 1)
      BY <3>5
    <3>7. SubSeq(c, 1, Len(c)) = c
      BY <3>5
    <3>8. InNonceOrder(d, accounts, fee)
      <4> SUFFICES ASSUME NEW i \in DOMAIN d
                   PROVE  /\ d[i].cap >= fee
                          /\ d[i].nonce = NextNonce(accounts, SubSeq(d, 1, i - 1),
                                                    d[i].sender)
        BY DEF InNonceOrder
      <4>1. CASE i = Len(c) + 1
        <5>1. d[i] = b /\ i - 1 = Len(c) /\ SubSeq(d, 1, i - 1) = SubSeq(c, 1, i - 1)
          BY <3>5, <3>6, <4>1
        <5>2. SubSeq(d, 1, i - 1) = c
          BY <3>7, <5>1
        <5> QED
          BY <3>3, <5>1, <5>2
      <4>2. CASE i # Len(c) + 1
        <5>1. /\ i \in DOMAIN c /\ d[i] = c[i]
              /\ SubSeq(d, 1, i - 1) = SubSeq(c, 1, i - 1)
          BY <3>5, <3>6, <4>2
        <5>2. /\ c[i].cap >= fee
              /\ c[i].nonce = NextNonce(accounts, SubSeq(c, 1, i - 1), c[i].sender)
          BY <5>1 DEF InNonceOrder
        <5> QED
          BY <5>1, <5>2
      <4> QED
        BY <4>1, <4>2
    <3> QED
      BY <2>2, <3>2, <3>4, <3>5, <3>8
  <2> QED
    BY <2>1, <2>2
<1> HIDE DEF V, more, L, next
<1>4. step \in [V -> V]
  BY <1>3
<1>5. PICK g \in [0..L -> V] : Iterates(g, L, <<>>, step)
  BY <1>1, <1>2, <1>4, IterationExists
<1>6. g = Chosen(g)
  <2>1. \A k \in 0..L : g[k] = IF k = 0 THEN <<>> ELSE more(g[k - 1])
    <3> SUFFICES ASSUME NEW k \in 1..L PROVE g[k] = more(g[k - 1])
      BY <1>1, <1>5 DEF Iterates
    <3>1. g[k - 1] \in V
      BY <1>1, <1>5
    <3> QED
      BY <1>5, <3>1 DEF Iterates
  <2> QED
    BY <2>1
<1>7. chosen = Chosen(chosen)
  <2> HIDE DEF Chosen
  <2> QED
    BY <1>6
<1>8. Candidate(txs, accounts, fee) = chosen[L]
  BY DEF Candidate, L, BlockLength, more, next
<1> HIDE DEF chosen
<1>9. \A k \in 0..L : chosen[k] = IF k = 0 THEN <<>> ELSE more(chosen[k - 1])
  <2>1. \A k \in 0..L :
          Chosen(chosen)[k] = IF k = 0 THEN <<>> ELSE more(chosen[k - 1])
    OBVIOUS
  <2> HIDE DEF Chosen
  <2>2. \A k \in 0..L : chosen[k] = Chosen(chosen)[k]
    BY <1>7
  <2> QED
    BY <2>1, <2>2
<1> DEFINE C == {k \in 0..L : ~(chosen[k] \in V /\ Len(chosen[k]) <= k)}
<1>10. C = {}
  <2> SUFFICES ASSUME C # {} PROVE FALSE
    OBVIOUS
  <2>0. C \subseteq Nat
    BY <1>1
  <2> HIDE DEF C
  <2>1. PICK k \in C : \A j \in C : k <= j
    BY <2>0, LeastNumber
  <2>2. k \in 0..L /\ ~(chosen[k] \in V /\ Len(chosen[k]) <= k)
    BY <2>1 DEF C
  <2>3. k # 0
    BY <1>2, <1>9, <2>2
  <2>4. k \in Nat /\ k - 1 \in 0..L /\ k - 1 \notin C
    BY <1>1, <2>0, <2>1, <2>2, <2>3
  <2>5. PICK c : c = chosen[k - 1]
    OBVIOUS
  <2>6. c \in V /\ Len(c) <= k - 1 /\ chosen[k] = more(c)
    BY <1>9, <2>2, <2>3, <2>4, <2>5 DEF C
  <2>7. more(c) \in V
    BY <1>3, <2>6
  <2>8. Len(more(c)) <= k
    <3>1. more(c) = c \/ \E b : more(c) = Append(c, b)
      BY DEF more
    <3>2. c \in Seq(txs) /\ Len(c) \in Nat
      BY <2>6 DEF V
    <3>3. \A b : Len(Append(c, b)) = Len(c) + 1
      BY <3>2
    <3> QED
      BY <2>4, <2>6, <3>1, <3>2, <3>3
  <2> QED
    BY <2>2, <2>6, <2>7, <2>8
<1>11. chosen[L] \in V /\ Len(chosen[L]) <= L
  BY <1>1, <1>10
<1> QED
  BY <1>8, <1>11 DEF V, L

----------------------------------------------------------------------------
(***************************************************************************)
(* A set of transactions the pool may hold.  The limits on gas and tip are *)
(* those of admission that no later block changes.                         *)
(***************************************************************************)
Sound(txs) ==
  /\ txs \subseteq Transactions /\ IsFiniteSet(txs)
  /\ \A tx \in txs : Rivals(tx, txs) = {tx}
  /\ \A tx \in txs : IntrinsicGas <= tx.gas /\ tx.gas <= BlockGasLimit /\ tx.tip <= tx.cap
  /\ Cardinality(txs) <= MaxTransactions
  /\ \A a \in Address : Cardinality({tx \in txs : tx.sender = a}) <= MaxPerSender

LEMMA PolicyFacts ==
  MaxTransactions \in Nat \ {0} /\ MaxPerSender \in Nat \ {0}
  BY PipelineAssumption

LEMMA SoundEmpty == Sound({})
<1>1. \A a : {tx \in {} : tx.sender = a} = {}
  OBVIOUS
<1> QED
  BY <1>1, FS_EmptySet, PolicyFacts DEF Sound

LEMMA SoundSubset ==
  ASSUME NEW txs, Sound(txs), NEW part \in SUBSET txs
  PROVE  Sound(part)
<1> USE DEF Sound
<1>1. IsFiniteSet(part) /\ Cardinality(part) <= MaxTransactions
  <2>1. Cardinality(part) <= Cardinality(txs) /\ IsFiniteSet(part)
    BY FS_Subset
  <2> QED
    BY <2>1, FS_CardinalityType, PolicyFacts
<1>2. ASSUME NEW a \in Address
      PROVE  Cardinality({tx \in part : tx.sender = a}) <= MaxPerSender
  <2> DEFINE S == {tx \in txs : tx.sender = a}
             T == {tx \in part : tx.sender = a}
  <2>1. S \subseteq txs /\ T \subseteq S /\ Cardinality(S) <= MaxPerSender
    OBVIOUS
  <2> HIDE DEF S, T
  <2>2. IsFiniteSet(S)
    BY <2>1, FS_Subset
  <2>3. IsFiniteSet(T) /\ Cardinality(T) <= Cardinality(S)
    BY <2>1, <2>2, FS_Subset
  <2>4. Cardinality(T) <= MaxPerSender
    BY <2>1, <2>2, <2>3, FS_CardinalityType, PolicyFacts
  <2> QED
    BY <2>4 DEF T
<1>3. \A tx \in part : Rivals(tx, part) = {tx}
  BY DEF Rivals
<1> QED
  BY <1>1, <1>2, <1>3

\* One transaction takes the place of its rival, or there is room for it.
LEMMA SoundAdmission ==
  ASSUME NEW txs, Sound(txs), NEW tx \in Transactions, tx \notin txs,
         IntrinsicGas <= tx.gas, tx.gas <= BlockGasLimit, tx.tip <= tx.cap,
         Rivals(tx, txs) = {} => HasRoom(tx, txs)
  PROVE  Sound((txs \ Rivals(tx, txs)) \cup {tx})
<1> DEFINE R == Rivals(tx, txs)
           rest == txs \ R
           new == rest \cup {tx}
           own(P, a) == {t \in P : t.sender = a}
           Fits == /\ Cardinality(new) <= MaxTransactions
                   /\ \A a \in Address : Cardinality(own(new, a)) <= MaxPerSender
<1>1. IsFiniteSet(txs) /\ txs \subseteq Transactions
  BY DEF Sound
<1>2. Sound(rest)
  BY SoundSubset
<1>3. IsFiniteSet(rest) /\ Cardinality(rest) \in Nat /\ tx \notin rest
  BY <1>2, FS_CardinalityType DEF Sound
<1>4. IsFiniteSet(new) /\ Cardinality(new) = Cardinality(rest) + 1
  BY <1>3, FS_AddElement
<1>5. \A t \in R : R = {t} /\ t.sender = tx.sender /\ t \in txs
  BY DEF Sound, Rivals
<1>6. ASSUME NEW a \in Address
      PROVE  /\ IsFiniteSet(own(txs, a)) /\ IsFiniteSet(own(rest, a))
             /\ Cardinality(own(rest, a)) \in Nat /\ Cardinality(own(txs, a)) \in Nat
             /\ Cardinality(own(txs, a)) <= MaxPerSender
             /\ Cardinality(own(rest, a)) <= MaxPerSender
  <2>1. own(txs, a) \in SUBSET txs /\ own(rest, a) \in SUBSET rest
    OBVIOUS
  <2>2. IsFiniteSet(own(txs, a)) /\ IsFiniteSet(own(rest, a))
    BY <1>1, <1>3, <2>1, FS_Subset
  <2> QED
    BY <1>2, <2>2, FS_CardinalityType DEF Sound
<1>7. ASSUME R = {} PROVE Fits
  <2>1. rest = txs /\ HasRoom(tx, txs)
    BY <1>7
  <2>2. Cardinality(new) <= MaxTransactions
    <3>1. Cardinality(txs) < MaxTransactions
      BY <2>1 DEF HasRoom
    <3>2. Cardinality(rest) < MaxTransactions
      BY <2>1, <3>1
    <3> HIDE DEF rest, new
    <3> QED
      BY <1>3, <1>4, <3>2, PolicyFacts
  <2>3. ASSUME NEW a \in Address
        PROVE  Cardinality(own(new, a)) <= MaxPerSender
    <3>1. CASE a = tx.sender
      <4>1. own(new, a) = own(txs, a) \cup {tx} /\ tx \notin own(txs, a)
        BY <2>1, <3>1
      <4>2. Cardinality(own(txs, a) \cup {tx}) = Cardinality(own(txs, a)) + 1
        BY <1>6, <4>1, FS_AddElement
      <4>3. Cardinality(own(txs, a)) < MaxPerSender
        BY <2>1, <3>1 DEF HasRoom
      <4>4. Cardinality(own(txs, a)) \in Nat
        BY <1>6
      <4>5. Cardinality(own(new, a)) = Cardinality(own(txs, a)) + 1
        BY <4>1, <4>2
      <4> HIDE DEF own, new
      <4> QED
        BY <4>3, <4>4, <4>5, PolicyFacts
    <3>2. CASE a # tx.sender
      <4>1. own(new, a) = own(txs, a)
        BY <2>1, <3>2
      <4> QED
        BY <1>6, <4>1
    <3> QED
      BY <3>1, <3>2
  <2> QED
    BY <2>2, <2>3
<1>8. ASSUME R # {} PROVE Fits
  <2>1. PICK t \in R : R = {t} /\ t.sender = tx.sender /\ t \in txs
    BY <1>5, <1>8
  <2>2. rest = txs \ {t}
    BY <2>1
  <2>3. Cardinality(rest) = Cardinality(txs) - 1
    BY <1>1, <2>1, <2>2, FS_RemoveElement
  <2>4. Cardinality(txs) \in Nat /\ Cardinality(txs) <= MaxTransactions
    BY <1>1, FS_CardinalityType DEF Sound
  <2>5. ASSUME NEW a \in Address
        PROVE  Cardinality(own(new, a)) <= MaxPerSender
    <3>1. CASE a = tx.sender
      <4>1. /\ own(new, a) = own(rest, a) \cup {tx} /\ tx \notin own(rest, a)
            /\ own(rest, a) = own(txs, a) \ {t} /\ t \in own(txs, a)
        BY <1>3, <2>1, <2>2, <3>1
      <4>2. Cardinality(own(rest, a) \cup {tx}) = Cardinality(own(rest, a)) + 1
        BY <1>6, <4>1, FS_AddElement
      <4>3. Cardinality(own(txs, a) \ {t}) = Cardinality(own(txs, a)) - 1
        BY <1>6, <4>1, FS_RemoveElement
      <4>4. /\ Cardinality(own(txs, a)) \in Nat
            /\ Cardinality(own(txs, a)) <= MaxPerSender
        BY <1>6
      <4>5. Cardinality(own(new, a)) = Cardinality(own(rest, a)) + 1
        BY <4>1, <4>2
      <4>6. Cardinality(own(rest, a)) = Cardinality(own(txs, a)) - 1
        BY <4>1, <4>3
      <4> HIDE DEF own, new, rest
      <4> QED
        BY <4>4, <4>5, <4>6
    <3>2. CASE a # tx.sender
      <4>1. own(new, a) = own(rest, a)
        BY <3>2
      <4> QED
        BY <1>6, <4>1
    <3> QED
      BY <3>1, <3>2
  <2>6. Cardinality(new) <= MaxTransactions
    <3> HIDE DEF new, rest
    <3> QED
      BY <1>4, <2>3, <2>4
  <2> QED
    BY <2>5, <2>6
<1>9. \A u \in new : Rivals(u, new) = {u}
  <2>1. \A u \in rest : ~(u.sender = tx.sender /\ u.nonce = tx.nonce)
    BY DEF Rivals
  <2>2. \A u \in rest : Rivals(u, rest) = {u}
    BY <1>2 DEF Sound
  <2> QED
    BY <2>1, <2>2 DEF Rivals
<1>10. \A u \in new :
         IntrinsicGas <= u.gas /\ u.gas <= BlockGasLimit /\ u.tip <= u.cap
  BY <1>2 DEF Sound
<1>11. new \subseteq Transactions
  BY <1>1
<1> QED
  BY <1>4, <1>7, <1>8, <1>9, <1>10, <1>11 DEF Sound

LEMMA HashesOf ==
  ASSUME NEW txs \in SUBSET Transactions, NEW part \in SUBSET Transactions
  PROVE  /\ Hashes(txs) \ Hashes(part) = Hashes(txs \ part)
         /\ Hashes(txs) \ Hashes(part \cap txs) = Hashes(txs \ part)
         /\ Hashes(txs) \subseteq Nat
         /\ \A t \in Transactions : t.hash \in Hashes(txs) <=> t \in txs
<1>1. \A t, u \in Transactions : t.hash = u.hash => t = u
  BY PipelineAssumption
<1>2. \A t \in Transactions : t.hash \in Nat
  BY TxFacts
<1> QED
  BY <1>1, <1>2 DEF Hashes

----------------------------------------------------------------------------
(***************************************************************************)
(* The next block.                                                         *)
(***************************************************************************)
LEMMA GenesisType == Genesis \in Blocks
  BY PipelineAssumption, KernelFacts DEF Genesis, Blocks

LEMMA BlockFields ==
  ASSUME NEW block \in Blocks
  PROVE  /\ block.path \in Seq(Seq(Nat)) /\ block.baseFee \in Nat \ {0}
         /\ block.gas \in Nat /\ block.gas \in 0..BlockGasLimit
         /\ block.accounts \in Accounts /\ block.fees \in Nat
         /\ Height(block) \in Nat
         /\ CheckpointOf(block) \in Blocks
<1>1. /\ block.path \in Seq(Seq(Nat)) /\ block.baseFee \in Nat \ {0}
      /\ block.gas \in 0..BlockGasLimit
      /\ block.accounts \in Accounts /\ block.fees \in Nat
  BY DEF Blocks, Accounts
<1>2. CheckpointOf(block) \in Blocks
  BY DEF CheckpointOf, Blocks
<1> QED
  BY <1>1, <1>2, KernelFacts DEF Height

HashesIn(txs) == [i \in DOMAIN txs |-> txs[i].hash]

LEMMA ExtensionFacts ==
  ASSUME NEW parent \in Blocks, NEW txs \in Seq(Transactions)
  PROVE  LET next == Extension(parent, txs) IN
         /\ next = [valid |-> next.valid, block |-> next.block]
         /\ next.valid \in BOOLEAN /\ next.block \in Blocks
         /\ next.block.path = Append(parent.path, HashesIn(txs))
         /\ Height(next.block) = Height(parent) + 1
<1> DEFINE fee == NextBaseFee(parent.baseFee, parent.gas)
           result == ExecuteBlock(parent.accounts, txs, fee)
           block == [path |-> Append(parent.path, HashesIn(txs)), baseFee |-> fee,
                     gas |-> result.gas, accounts |-> result.accounts,
                     fees |-> result.fees]
<1>1. /\ parent.accounts \in Accounts /\ fee \in Nat \ {0}
      /\ parent.path \in Seq(Seq(Nat))
  BY BlockFields, NextBaseFeeType
<1> HIDE DEF fee
<1>2. result \in Results
  <2>1. Len(txs) \in 0..Len(txs) /\ fee \in Nat
    BY <1>1
  <2>2. PICK run : /\ IsRun(run, parent.accounts, txs, fee)
                   /\ result = run[Len(txs)]
    BY <1>1, <2>1, RunExists
  <2> QED
    BY <2>1, <2>2 DEF IsRun
<1> HIDE DEF result
<1>3. HashesIn(txs) \in Seq(Nat)
  <2>1. \A i \in DOMAIN txs : txs[i] \in Transactions
    OBVIOUS
  <2>2. \A i \in DOMAIN txs : txs[i].hash \in Nat
    BY <2>1, TxFacts
  <2>3. Len(txs) \in Nat /\ DOMAIN txs = 1..Len(txs)
    OBVIOUS
  <2> QED
    BY <2>2, <2>3 DEF HashesIn
<1>4. Append(parent.path, HashesIn(txs)) \in Seq(Seq(Nat))
  BY <1>1, <1>3
<1>5. block \in Blocks
  BY <1>1, <1>2, <1>4 DEF Blocks, Results, Accounts
<1>6. Extension(parent, txs) = [valid |-> result.valid, block |-> block]
  BY DEF Extension, HashesIn, fee, result
<1>7. Height(block) = Height(parent) + 1
  BY <1>1, <1>3 DEF Height
<1> HIDE DEF block
<1>8. result.valid \in BOOLEAN
  BY <1>2 DEF Results
<1>9. block.path = Append(parent.path, HashesIn(txs))
  BY DEF block
<1> QED
  BY <1>5, <1>6, <1>7, <1>8, <1>9

\* The parent's fees do not go into the next block.
LEMMA ExtensionOfCheckpoint ==
  ASSUME NEW b \in Blocks, NEW c \in Blocks, CheckpointOf(b) = CheckpointOf(c),
         NEW txs
  PROVE  /\ Extension(b, txs) = Extension(c, txs)
         /\ Height(b) = Height(c) /\ b.accounts = c.accounts /\ b.path = c.path
         /\ b.baseFee = c.baseFee /\ b.gas = c.gas
<1>1. /\ b.accounts = c.accounts /\ b.path = c.path
      /\ b.baseFee = c.baseFee /\ b.gas = c.gas
  BY DEF CheckpointOf, Blocks
<1> QED
  BY <1>1 DEF Extension, Height

----------------------------------------------------------------------------
(***************************************************************************)
(* The chain: every block is the execution of some transactions on the one *)
(* before it.                                                              *)
(***************************************************************************)
TipOf(chain, h) == IF h = 0 THEN Genesis ELSE chain[h]

Linked(parent, block) ==
  \E txs \in Seq(Transactions) :
    Extension(parent, txs) = [valid |-> TRUE, block |-> block]

Chain(chain) ==
  /\ chain \in Seq(Blocks)
  /\ \A h \in 1..Len(chain) : Height(chain[h]) = h /\ Linked(TipOf(chain, h - 1), chain[h])

OnChain(block, chain) ==
  /\ Height(block) <= Len(chain)
  /\ CheckpointOf(block) = CheckpointOf(TipOf(chain, Height(block)))

LEMMA TipFacts ==
  ASSUME NEW chain, Chain(chain), NEW h \in 0..Len(chain)
  PROVE  TipOf(chain, h) \in Blocks /\ Height(TipOf(chain, h)) = h
<1>1. CASE h = 0
  <2>1. Height(Genesis) = 0
    BY DEF Height, Genesis
  <2> QED
    BY <1>1, <2>1, GenesisType DEF TipOf
<1>2. CASE h # 0
  <2>1. h \in 1..Len(chain) /\ chain \in Seq(Blocks)
    BY <1>2 DEF Chain
  <2> QED
    BY <1>2, <2>1 DEF Chain, TipOf
<1> QED
  BY <1>1, <1>2

LEMMA ChainGrows ==
  ASSUME NEW chain, Chain(chain), NEW block \in Blocks,
         Linked(TipOf(chain, Len(chain)), block)
  PROVE  /\ Chain(Append(chain, block))
         /\ \A b \in Blocks : OnChain(b, chain) => OnChain(b, Append(chain, block))
         /\ OnChain(block, Append(chain, block))
<1> DEFINE n == Len(chain)
<1>0. PICK new : new = Append(chain, block)
  OBVIOUS
<1>1. chain \in Seq(Blocks) /\ n \in Nat
  BY DEF Chain
<1>2. /\ new \in Seq(Blocks) /\ Len(new) = n + 1 /\ new[n + 1] = block
      /\ \A h \in 1..n : new[h] = chain[h]
  BY <1>0, <1>1
<1>3. \A h \in 0..n : TipOf(new, h) = TipOf(chain, h)
  BY <1>1, <1>2 DEF TipOf
<1>4. Height(block) = n + 1
  <2>1. PICK txs \in Seq(Transactions) :
          Extension(TipOf(chain, n), txs) = [valid |-> TRUE, block |-> block]
    BY DEF Linked
  <2>2. TipOf(chain, n) \in Blocks /\ Height(TipOf(chain, n)) = n
    BY <1>1, TipFacts
  <2>3. Extension(TipOf(chain, n), txs).block = block
    BY <2>1
  <2> QED
    BY <2>2, <2>3, ExtensionFacts
<1>5. Chain(new)
  <2>1. ASSUME NEW h \in 1..(n + 1)
        PROVE  Height(new[h]) = h /\ Linked(TipOf(new, h - 1), new[h])
    <3>1. CASE h = n + 1
      <4>1. h - 1 = n /\ new[h] = block /\ TipOf(new, h - 1) = TipOf(chain, n)
        BY <1>1, <1>2, <1>3, <3>1
      <4> QED
        BY <1>4, <3>1, <4>1
    <3>2. CASE h # n + 1
      <4>1. /\ h \in 1..n /\ new[h] = chain[h]
            /\ TipOf(new, h - 1) = TipOf(chain, h - 1)
        BY <1>1, <1>2, <1>3, <3>2
      <4> QED
        BY <4>1 DEF Chain
    <3> QED
      BY <3>1, <3>2
  <2> QED
    BY <1>2, <2>1 DEF Chain
<1>6. ASSUME NEW b \in Blocks, OnChain(b, chain)
      PROVE  OnChain(b, new)
  <2>1. Height(b) \in 0..n
    BY <1>1, <1>6, BlockFields DEF OnChain
  <2> QED
    BY <1>1, <1>2, <1>3, <1>6, <2>1 DEF OnChain
<1>7. OnChain(block, new)
  BY <1>1, <1>2, <1>4 DEF OnChain, TipOf
<1> QED
  BY <1>0, <1>5, <1>6, <1>7

----------------------------------------------------------------------------
(***************************************************************************)
(* The inductive invariant.                                                *)
(***************************************************************************)
Pooled == Sound(pool) /\ hashes = Hashes(pool) /\ Sound(snapshot)

Following ==
  /\ Chain(certified)
  /\ OnChain(head, certified) /\ OnChain(checkpoint, certified)

\* The pending block is what its transactions give on the head.
Proposed ==
  pending # NoProposal =>
    Extension(head, pending.txs) = [valid |-> TRUE, block |-> pending.block]

IInv == TypeOK /\ Pooled /\ Following /\ Proposed

LEMMA NoProposalType == NoProposal \in [txs : Seq(Transactions), block : Blocks]
  BY GenesisType DEF NoProposal

LEMMA InitIInv == Init => IInv
<1> SUFFICES ASSUME Init PROVE IInv
  OBVIOUS
<1> USE DEF Init
<1>1. TypeOK
  BY GenesisType, NoProposalType DEF TypeOK
<1>2. Pooled
  BY SoundEmpty DEF Pooled, Hashes
<1>3. Chain(<<>>) /\ OnChain(Genesis, <<>>)
  <2>1. Height(Genesis) = 0
    BY DEF Height, Genesis
  <2> QED
    BY <2>1 DEF Chain, OnChain, TipOf
<1> QED
  BY <1>1, <1>2, <1>3 DEF IInv, Following, Proposed

LEMMA AdmitStep ==
  ASSUME IInv, NEW tx \in Transactions, Admit(tx)
  PROVE  IInv'
<1>1. /\ pool \subseteq Transactions /\ Sound(pool) /\ hashes = Hashes(pool)
      /\ IntrinsicGas <= tx.gas /\ tx.gas <= BlockGasLimit /\ tx.tip <= tx.cap
      /\ tx.hash \notin hashes
      /\ Rivals(tx, pool) = {} => HasRoom(tx, pool)
  BY DEF IInv, TypeOK, Pooled, Admit, WithinBoundary
<1>2. tx \notin pool
  BY <1>1, HashesOf
<1>3. Sound(pool')
  BY <1>1, <1>2, SoundAdmission DEF Admit
<1>4. hashes' = Hashes(pool')
  <2>1. Rivals(tx, pool) \in SUBSET Transactions
    BY <1>1 DEF Rivals
  <2>2. Hashes(pool) \ Hashes(Rivals(tx, pool)) = Hashes(pool \ Rivals(tx, pool))
    BY <1>1, <2>1, HashesOf
  <2>3. hashes' = Hashes(pool \ Rivals(tx, pool)) \cup {tx.hash}
    BY <1>1, <2>2 DEF Admit
  <2>4. pool' = (pool \ Rivals(tx, pool)) \cup {tx}
    BY DEF Admit
  <2> QED
    BY <2>3, <2>4 DEF Hashes
<1>5. pool' \subseteq Transactions /\ hashes' \subseteq Nat
  BY <1>3, <1>4, HashesOf DEF Sound
<1>6. UNCHANGED <<head, pending, snapshot, checkpoint, certified>>
  BY DEF Admit
<1>7. TypeOK'
  BY <1>5, <1>6 DEF IInv, TypeOK
<1> QED
  BY <1>3, <1>4, <1>6, <1>7 DEF IInv, Pooled, Following, Proposed

\* The pool loses some transactions and their hashes.
LEMMA ShrinkPooled ==
  ASSUME IInv, NEW part \in SUBSET Transactions, pool' = pool \ part,
         hashes' = Hashes(pool \ part), snapshot' \in {pool, snapshot}
  PROVE  Pooled' /\ (pool \subseteq Transactions)' /\ (hashes \subseteq Nat)'
         /\ (snapshot \subseteq Transactions)'
<1>1. pool \subseteq Transactions /\ Sound(pool) /\ Sound(snapshot)
      /\ snapshot \subseteq Transactions
  BY DEF IInv, TypeOK, Pooled
<1>2. Sound(pool')
  BY <1>1, SoundSubset
<1>3. hashes' \subseteq Nat
  BY <1>1, HashesOf
<1> QED
  BY <1>1, <1>2, <1>3 DEF Pooled

LEMMA PruneStep ==
  ASSUME IInv, Prune
  PROVE  IInv'
<1> DEFINE removed == {tx \in pool : Obsolete(tx)}
<1>1. /\ pool' = pool \ removed /\ hashes' = hashes \ Hashes(removed)
      /\ UNCHANGED <<head, pending, snapshot, checkpoint, certified>>
  BY DEF Prune
<1>2. /\ pool \subseteq Transactions /\ hashes = Hashes(pool)
      /\ removed \in SUBSET Transactions
  BY DEF IInv, TypeOK, Pooled
<1> HIDE DEF removed
<1>3. hashes' = Hashes(pool \ removed)
  BY <1>1, <1>2, HashesOf
<1>4. Pooled' /\ (pool \subseteq Transactions)' /\ (hashes \subseteq Nat)'
  BY <1>1, <1>2, <1>3, ShrinkPooled
<1> QED
  BY <1>1, <1>4 DEF IInv, TypeOK, Following, Proposed

LEMMA SelectedType ==
  ASSUME NEW txs, txs \subseteq Transactions, IsFiniteSet(txs), NEW parent \in Blocks
  PROVE  /\ Selected(txs, parent) \in Seq(txs)
         /\ Selected(txs, parent) \in Seq(Transactions)
         /\ Len(Selected(txs, parent)) <= BlockLength
         /\ InNonceOrder(Selected(txs, parent), parent.accounts, parent.baseFee)
<1>1. parent.baseFee \in Nat
  BY BlockFields
<1>2. txs \in SUBSET Transactions
  OBVIOUS
<1>3. /\ Selected(txs, parent) \in Seq(txs)
      /\ Len(Selected(txs, parent)) <= BlockLength
      /\ InNonceOrder(Selected(txs, parent), parent.accounts, parent.baseFee)
  BY <1>1, <1>2, CandidateFacts DEF Selected
<1>4. \A s : s \in Seq(txs) => s \in Seq(Transactions)
  OBVIOUS
<1> QED
  BY <1>3, <1>4

LEMMA ProposeStep ==
  ASSUME IInv, Propose
  PROVE  IInv'
<1> DEFINE txs == Selected(pool, head)
<1>1. /\ pool \subseteq Transactions /\ IsFiniteSet(pool) /\ head \in Blocks
  BY DEF IInv, TypeOK, Pooled, Sound
<1>2. txs \in Seq(Transactions)
  BY <1>1, SelectedType
<1>3. /\ Extension(head, txs).valid
      /\ pending' = [txs |-> txs, block |-> Extension(head, txs).block]
      /\ UNCHANGED <<pool, hashes, head, snapshot, checkpoint, certified>>
  BY DEF Propose
<1> HIDE DEF txs
<1>4. PICK next : next = Extension(head, txs)
  OBVIOUS
<1>5. /\ next = [valid |-> next.valid, block |-> next.block]
      /\ next.valid \in BOOLEAN /\ next.block \in Blocks /\ next.valid
  BY <1>1, <1>2, <1>3, <1>4, ExtensionFacts
<1>6. /\ pending' \in [txs : Seq(Transactions), block : Blocks]
      /\ pending'.txs = txs /\ pending'.block = next.block
  BY <1>2, <1>3, <1>4, <1>5
<1>7. Proposed'
  BY <1>3, <1>4, <1>5, <1>6 DEF Proposed
<1> QED
  BY <1>3, <1>6, <1>7 DEF IInv, TypeOK, Pooled, Following

\* A finalized block goes on top of the chain, or is there already.
LEMMA CommitFacts ==
  ASSUME IInv, Commit
  PROVE  /\ pending.txs \in Seq(Transactions)
         /\ Extension(head, pending.txs) = [valid |-> TRUE, block |-> pending.block]
         /\ pending.block \in Blocks
         /\ Height(pending.block) = Height(head) + 1
         /\ Linked(TipOf(certified, Height(head)), pending.block)
         /\ Height(head) \in 0..Len(certified)
<1>1. pending.txs \in Seq(Transactions) /\ pending.block \in Blocks /\ head \in Blocks
  BY DEF IInv, TypeOK
<1>2. Extension(head, pending.txs) = [valid |-> TRUE, block |-> pending.block]
  BY DEF IInv, Proposed, Commit
<1>3. Height(pending.block) = Height(head) + 1
  <2>1. Extension(head, pending.txs).block = pending.block
    BY <1>2
  <2> QED
    BY <1>1, <2>1, ExtensionFacts
<1>4. Height(head) \in 0..Len(certified)
  <2>1. Height(head) \in Nat /\ Height(head) <= Len(certified) /\ Len(certified) \in Nat
    BY <1>1, BlockFields DEF IInv, Following, OnChain, TypeOK
  <2> QED
    BY <2>1
<1>5. /\ TipOf(certified, Height(head)) \in Blocks
      /\ CheckpointOf(head) = CheckpointOf(TipOf(certified, Height(head)))
  BY <1>4, TipFacts DEF IInv, Following, OnChain
<1>6. Extension(TipOf(certified, Height(head)), pending.txs)
        = [valid |-> TRUE, block |-> pending.block]
  BY <1>1, <1>2, <1>5, ExtensionOfCheckpoint
<1> QED
  BY <1>1, <1>2, <1>3, <1>4, <1>6 DEF Linked

LEMMA CommitStep ==
  ASSUME IInv, Commit
  PROVE  IInv'
<1>1. /\ pending.txs \in Seq(Transactions) /\ pending.block \in Blocks
      /\ Height(pending.block) = Height(head) + 1
      /\ Linked(TipOf(certified, Height(head)), pending.block)
      /\ Height(head) \in 0..Len(certified)
  BY CommitFacts
<1>2. /\ Finalizes(pending.block)
      /\ head' = pending.block /\ pending' = NoProposal
      /\ pool' = pool \ ToSet(pending.txs)
      /\ hashes' = hashes \ (Hashes(ToSet(pending.txs) \cap pool))
      /\ UNCHANGED <<snapshot, checkpoint>>
  BY DEF Commit
<1>3. ToSet(pending.txs) \in SUBSET Transactions
  BY <1>1 DEF ToSet
<1>4. /\ pool \in SUBSET Transactions /\ hashes = Hashes(pool)
      /\ checkpoint \in Blocks /\ certified \in Seq(Blocks)
      /\ Chain(certified) /\ OnChain(checkpoint, certified)
  BY DEF IInv, TypeOK, Pooled, Following
<1>5. hashes' = Hashes(pool \ ToSet(pending.txs))
  BY <1>2, <1>3, <1>4, HashesOf
<1>6. /\ Pooled' /\ (pool \subseteq Transactions)' /\ (hashes \subseteq Nat)'
      /\ (snapshot \subseteq Transactions)'
  BY <1>2, <1>3, <1>5, ShrinkPooled
<1>7. /\ Chain(certified') /\ OnChain(checkpoint, certified')
      /\ OnChain(pending.block, certified')
  <2>1. CASE /\ Height(pending.block) = Len(certified) + 1
             /\ certified' = Append(certified, pending.block)
    <3>1. Height(head) = Len(certified)
      BY <1>1, <1>4, <2>1
    <3> QED
      BY <1>1, <1>4, <2>1, <3>1, ChainGrows
  <2>2. CASE /\ Height(pending.block) <= Len(certified)
             /\ certified[Height(pending.block)] = pending.block
             /\ UNCHANGED certified
    <3>1. Height(pending.block) # 0
      BY <1>1
    <3> QED
      BY <1>4, <2>2, <3>1 DEF OnChain, TipOf
  <2> QED
    BY <1>2, <2>1, <2>2 DEF Finalizes
<1>8. certified' \in Seq(Blocks)
  BY <1>7 DEF Chain
<1>9. TypeOK'
  BY <1>1, <1>2, <1>4, <1>6, <1>8, NoProposalType DEF TypeOK
<1> QED
  BY <1>2, <1>6, <1>7, <1>9 DEF IInv, Following, Proposed

\* What the others finalize goes on top of the chain.
LEMMA OthersFacts ==
  ASSUME IInv, OthersFinalize
  PROVE  \E txs \in Seq(Transactions) :
           LET tip  == TipOf(certified, Len(certified))
               next == Extension(tip, txs)
           IN  /\ next = [valid |-> TRUE, block |-> next.block]
               /\ next.block \in Blocks
               /\ certified' = Append(certified, next.block)
<1> DEFINE tip == TipOf(certified, Len(certified))
<1>1. tip = IF certified = <<>> THEN Genesis ELSE Last(certified)
  <2>1. certified \in Seq(Blocks)
    BY DEF IInv, TypeOK
  <2>2. Len(certified) = 0 <=> certified = <<>>
    BY <2>1
  <2> QED
    BY <2>2 DEF TipOf, Last
<1>2. tip \in Blocks
  <2>1. Len(certified) \in 0..Len(certified)
    BY DEF IInv, TypeOK
  <2> QED
    BY <2>1, TipFacts DEF IInv, Following
<1> HIDE DEF tip
<1>3. PICK txs \in SUBSET Transactions :
        /\ IsFiniteSet(txs)
        /\ Extension(tip, Selected(txs, tip)).valid
        /\ certified' = Append(certified, Extension(tip, Selected(txs, tip)).block)
  BY <1>1 DEF OthersFinalize
<1>4. Selected(txs, tip) \in Seq(Transactions)
  BY <1>2, <1>3, SelectedType
<1>5. PICK us \in Seq(Transactions) : us = Selected(txs, tip)
  BY <1>4
<1>6. PICK next : next = Extension(tip, us)
  OBVIOUS
<1>7. /\ next = [valid |-> next.valid, block |-> next.block]
      /\ next.valid \in BOOLEAN /\ next.block \in Blocks
  BY <1>2, <1>5, <1>6, ExtensionFacts
<1>8. next.valid /\ certified' = Append(certified, next.block)
  BY <1>3, <1>5, <1>6
<1>9. next = [valid |-> TRUE, block |-> next.block]
  BY <1>7, <1>8
<1> QED
  BY <1>6, <1>7, <1>8, <1>9 DEF tip

LEMMA OthersStep ==
  ASSUME IInv, OthersFinalize
  PROVE  IInv'
<1>1. PICK txs \in Seq(Transactions) :
        LET tip  == TipOf(certified, Len(certified))
            next == Extension(tip, txs)
        IN  /\ next = [valid |-> TRUE, block |-> next.block]
            /\ next.block \in Blocks
            /\ certified' = Append(certified, next.block)
  BY OthersFacts
<1>2. PICK block \in Blocks : /\ Linked(TipOf(certified, Len(certified)), block)
                              /\ certified' = Append(certified, block)
  BY <1>1 DEF Linked
<1>3. UNCHANGED <<pool, hashes, head, pending, snapshot, checkpoint>>
  BY DEF OthersFinalize
<1>4. /\ Chain(certified) /\ OnChain(head, certified) /\ OnChain(checkpoint, certified)
      /\ head \in Blocks /\ checkpoint \in Blocks
  BY DEF IInv, TypeOK, Following
<1>5. Following'
  BY <1>2, <1>3, <1>4, ChainGrows DEF Following
<1>6. certified' \in Seq(Blocks)
  BY <1>5 DEF Following, Chain
<1>7. TypeOK'
  BY <1>3, <1>6 DEF IInv, TypeOK
<1> QED
  BY <1>3, <1>5, <1>7 DEF IInv, Pooled, Proposed

LEMMA SnapshotStep ==
  ASSUME IInv, ExportSnapshot \/ RestoreSnapshot \/ Restart
  PROVE  IInv'
<1>1. /\ Sound(pool') /\ Sound(snapshot') /\ hashes' = Hashes(pool')
      /\ UNCHANGED <<head, checkpoint, certified>>
      /\ pending' \in {pending, NoProposal}
  <2>1. Hashes({}) = {}
    BY DEF Hashes
  <2> QED
    BY <2>1, SoundEmpty
       DEF IInv, Pooled, ExportSnapshot, RestoreSnapshot, Restart
<1>2. pool' \subseteq Transactions /\ snapshot' \subseteq Transactions /\ hashes' \subseteq Nat
  BY <1>1, HashesOf DEF Sound
<1>3. TypeOK'
  BY <1>1, <1>2, NoProposalType DEF IInv, TypeOK
<1> QED
  BY <1>1, <1>3 DEF IInv, Pooled, Following, Proposed

LEMMA CheckpointFacts ==
  ASSUME NEW block \in Blocks, NEW chain, OnChain(block, chain)
  PROVE  OnChain(CheckpointOf(block), chain)
<1>1. CheckpointOf(CheckpointOf(block)) = CheckpointOf(block)
  BY DEF CheckpointOf, Blocks
<1>2. Height(CheckpointOf(block)) = Height(block)
  BY DEF CheckpointOf, Blocks, Height
<1> QED
  BY <1>1, <1>2 DEF OnChain

LEMMA CheckpointStep ==
  ASSUME IInv, ExportCheckpoint \/ RestoreCheckpoint
  PROVE  IInv'
<1>1. /\ head \in Blocks /\ checkpoint \in Blocks
      /\ OnChain(head, certified) /\ OnChain(checkpoint, certified)
  BY DEF IInv, TypeOK, Following
<1>2. CASE ExportCheckpoint
  <2>1. /\ checkpoint' = CheckpointOf(head)
        /\ UNCHANGED <<pool, hashes, head, pending, snapshot, certified>>
    BY <1>2 DEF ExportCheckpoint
  <2>2. CheckpointOf(head) \in Blocks /\ OnChain(CheckpointOf(head), certified)
    BY <1>1, BlockFields, CheckpointFacts
  <2>3. TypeOK'
    BY <2>1, <2>2 DEF IInv, TypeOK
  <2> QED
    BY <2>1, <2>2, <2>3 DEF IInv, Pooled, Following, Proposed
<1>3. CASE RestoreCheckpoint
  <2>1. /\ head' = checkpoint /\ pool' = {} /\ hashes' = {} /\ pending' = NoProposal
        /\ UNCHANGED <<snapshot, checkpoint, certified>>
    BY <1>3 DEF RestoreCheckpoint
  <2>2. Pooled'
    BY <2>1, SoundEmpty DEF IInv, Pooled, Hashes
  <2>3. TypeOK'
    BY <1>1, <2>1, NoProposalType DEF IInv, TypeOK
  <2> QED
    BY <1>1, <2>1, <2>2, <2>3 DEF IInv, Following, Proposed
<1> QED
  BY <1>2, <1>3

LEMMA NextIInv == IInv /\ [Next]_vars => IInv'
<1> SUFFICES ASSUME IInv, [Next]_vars PROVE IInv'
  OBVIOUS
<1>1. CASE UNCHANGED vars
  BY <1>1 DEF vars, IInv, TypeOK, Pooled, Following, Proposed
<1>2. ASSUME NEW tx \in Transactions, Admit(tx) PROVE IInv'
  BY <1>2, AdmitStep
<1> QED
  BY <1>1, <1>2, PruneStep, ProposeStep, CommitStep, OthersStep, SnapshotStep,
     CheckpointStep DEF Next

LEMMA Invariant == Spec => []IInv
  BY InitIInv, NextIInv, PTL DEF Spec
----------------------------------------------------------------------------
(***************************************************************************)
(* Type correctness of the node's and the chain's state.                   *)
(***************************************************************************)
THEOREM TypeCorrect == Spec => []TypeOK
<1>1. IInv => TypeOK
  BY DEF IInv
<1> QED
  BY <1>1, Invariant, PTL

(***************************************************************************)
(* The pool's index of hashes agrees with its transactions, there is one   *)
(* for a sender and nonce, and the limits of the policy hold, through      *)
(* replacement, pruning, inclusion, restarts and restores (mempool.py).    *)
(***************************************************************************)
THEOREM PoolSoundHolds == Spec => []PoolSound
<1>1. IInv => PoolSound
  BY DEF IInv, Pooled, Sound, PoolSound
<1> QED
  BY <1>1, Invariant, PTL

LEMMA ByHashOf ==
  ASSUME NEW tx \in Transactions
  PROVE  ByHash(tx.hash) = tx
  BY PipelineAssumption DEF ByHash

(***************************************************************************)
(* On every node's head, at whatever height and whether reached by commits *)
(* or by a checkpoint, the next finalized block's transactions give that   *)
(* block (node_pipeline.py, state_store.py).                               *)
(***************************************************************************)
THEOREM FollowsChainHolds == Spec => []FollowsChain
<1>1. IInv => FollowsChain
  <2> SUFFICES ASSUME IInv, Height(head) < Len(certified) PROVE FollowsChain
    BY DEF FollowsChain
  <2> DEFINE h == Height(head)
             next == certified[h + 1]
             txs == [i \in DOMAIN Last(next.path) |-> ByHash(Last(next.path)[i])]
  <2>1. /\ head \in Blocks /\ certified \in Seq(Blocks)
        /\ Chain(certified) /\ OnChain(head, certified)
    BY DEF IInv, TypeOK, Following
  <2>2. h \in Nat /\ h + 1 \in 1..Len(certified) /\ (h + 1) - 1 = h /\ h \in 0..Len(certified)
    BY <2>1, BlockFields
  <2>3. Linked(TipOf(certified, h), next)
    BY <2>1, <2>2 DEF Chain
  <2>4. PICK us \in Seq(Transactions) :
          Extension(TipOf(certified, h), us) = [valid |-> TRUE, block |-> next]
    BY <2>3 DEF Linked
  <2>5. /\ TipOf(certified, h) \in Blocks
        /\ CheckpointOf(head) = CheckpointOf(TipOf(certified, h))
    BY <2>1, <2>2, TipFacts DEF OnChain
  <2>6. Extension(head, us) = [valid |-> TRUE, block |-> next]
    BY <2>1, <2>4, <2>5, ExtensionOfCheckpoint
  <2>7. next.path = Append(head.path, HashesIn(us))
    <3>1. Extension(head, us).block = next
      BY <2>6
    <3> QED
      BY <2>1, <3>1, ExtensionFacts
  <2>8. Last(next.path) = HashesIn(us)
    <3>1. head.path \in Seq(Seq(Nat))
      BY <2>1, BlockFields
    <3>2. \A p, x : p \in Seq(Seq(Nat)) =>
            Len(Append(p, x)) = Len(p) + 1 /\ Append(p, x)[Len(p) + 1] = x
      OBVIOUS
    <3> QED
      BY <2>7, <3>1, <3>2 DEF Last
  <2>9. txs = us
    <3>1. us \in Seq(Transactions) /\ us = [i \in DOMAIN us |-> us[i]]
      OBVIOUS
    <3>2. DOMAIN HashesIn(us) = DOMAIN us
      BY DEF HashesIn
    <3>3. \A i \in DOMAIN us : ByHash(HashesIn(us)[i]) = us[i]
      <4>1. \A i \in DOMAIN us : us[i] \in Transactions
        OBVIOUS
      <4> QED
        BY <4>1, ByHashOf DEF HashesIn
    <3>4. txs = [i \in DOMAIN us |-> ByHash(HashesIn(us)[i])]
      BY <2>8, <3>2
    <3> QED
      BY <3>1, <3>3, <3>4
  <2> HIDE DEF txs, next
  <2>10. Extension(head, txs) = [valid |-> TRUE, block |-> next]
    BY <2>6, <2>9
  <2> QED
    BY <2>10 DEF FollowsChain, txs, next
<1> QED
  BY <1>1, Invariant, PTL

----------------------------------------------------------------------------
(***************************************************************************)
(* A transfer to its own sender keeps the nonce and makes coins (the run   *)
(* that shows the replay).  What follows is about chains without one.      *)
(***************************************************************************)
NoSelfTransfer == \A tx \in Transactions : tx.sender # tx.recipient

LEMMA AppliedFacts ==
  ASSUME NEW result \in Results, NEW tx \in Transactions, NEW fee \in Nat,
         ApplyTransaction(result, tx, fee).valid
  PROVE  LET new == ApplyTransaction(result, tx, fee) IN
         /\ result.valid /\ Acceptable(result, tx, fee)
         /\ new.accounts = Transfer(result.accounts, tx, fee)
         /\ new.gas = result.gas + IntrinsicGas
         /\ new.fees = result.fees + Fee(tx, fee)
         /\ new.seen = result.seen \cup {tx.hash}
         /\ fee <= tx.cap
         /\ result.accounts \in Accounts
         /\ result.accounts[tx.sender].balance >= tx.value + Fee(tx, fee)
         /\ tx.nonce = result.accounts[tx.sender].nonce
<1>1. result.valid /\ Acceptable(result, tx, fee)
  BY DEF ApplyTransaction, Results
<1>2. ApplyTransaction(result, tx, fee) =
        [valid    |-> TRUE,
         accounts |-> Transfer(result.accounts, tx, fee),
         gas      |-> result.gas + IntrinsicGas,
         fees     |-> result.fees + Fee(tx, fee),
         seen     |-> result.seen \cup {tx.hash}]
  BY <1>1 DEF ApplyTransaction
<1>3. /\ fee <= tx.cap /\ result.accounts \in Accounts
      /\ result.accounts[tx.sender].balance >= tx.value + Fee(tx, fee)
      /\ tx.nonce = result.accounts[tx.sender].nonce
  BY <1>1 DEF Acceptable, Results
<1> QED
  BY <1>1, <1>2, <1>3

\* Only the sender's nonce moves, by one.
LEMMA AppliedNonces ==
  ASSUME NoSelfTransfer,
         NEW result \in Results, NEW tx \in Transactions, NEW fee \in Nat,
         ApplyTransaction(result, tx, fee).valid
  PROVE  LET new == ApplyTransaction(result, tx, fee) IN
         \A a \in Address :
           new.accounts[a].nonce =
             IF a = tx.sender THEN tx.nonce + 1 ELSE result.accounts[a].nonce
<1> DEFINE old == result.accounts
           acc == Transfer(old, tx, fee)
<1>1. /\ fee <= tx.cap /\ old \in Accounts
      /\ old[tx.sender].balance >= tx.value + Fee(tx, fee)
      /\ tx.nonce = old[tx.sender].nonce
      /\ ApplyTransaction(result, tx, fee).accounts = acc
  BY AppliedFacts
<1> HIDE DEF old
<1>2. tx.sender # tx.recipient
  BY DEF NoSelfTransfer
<1>3. /\ \A a \in Address \ {tx.sender, tx.recipient} : acc[a] = old[a]
      /\ acc[tx.recipient] =
           [balance |-> old[tx.recipient].balance + tx.value,
            nonce |-> old[tx.recipient].nonce]
      /\ acc[tx.sender] =
           [balance |-> old[tx.sender].balance - tx.value - Fee(tx, fee),
            nonce |-> old[tx.sender].nonce + 1]
  BY <1>1, <1>2, TransferFacts
<1> HIDE DEF acc
<1>4. /\ acc[tx.recipient].nonce = old[tx.recipient].nonce
      /\ acc[tx.sender].nonce = tx.nonce + 1
  BY <1>1, <1>3
<1> QED
  BY <1>1, <1>2, <1>3, <1>4 DEF old

\* The coins that leave the accounts are the fee.
LEMMA AppliedSupply ==
  ASSUME NoSelfTransfer, IsFiniteSet(Address),
         NEW result \in Results, NEW tx \in Transactions, NEW fee \in Nat,
         ApplyTransaction(result, tx, fee).valid
  PROVE  LET new == ApplyTransaction(result, tx, fee) IN
         SumFunction(Balances(new.accounts)) + new.fees
           = SumFunction(Balances(result.accounts)) + result.fees
<1> DEFINE old == result.accounts
           acc == Transfer(old, tx, fee)
           new == ApplyTransaction(result, tx, fee)
           s == tx.sender
           r == tx.recipient
           v == Balances(old)
           w == Balances(acc)
           u == [v EXCEPT ![s] = w[s]]
<1>1. /\ fee <= tx.cap /\ old \in Accounts
      /\ old[s].balance >= tx.value + Fee(tx, fee)
      /\ new.accounts = acc
      /\ new.fees = result.fees + Fee(tx, fee)
  BY AppliedFacts
<1>2. s # r /\ s \in Address /\ r \in Address /\ tx.value \in Nat
      /\ Fee(tx, fee) \in Nat /\ result.fees \in Nat
  BY <1>1, TxFacts, FeeType DEF NoSelfTransfer, Results
<1> HIDE DEF old, new
<1>3. /\ \A a \in Address \ {s, r} : acc[a] = old[a]
      /\ acc[r] = [balance |-> old[r].balance + tx.value, nonce |-> old[r].nonce]
      /\ acc[s] = [balance |-> old[s].balance - tx.value - Fee(tx, fee),
                   nonce |-> old[s].nonce + 1]
      /\ acc \in Accounts
  BY <1>1, <1>2, TransferFacts
<1> HIDE DEF acc
<1>4. /\ \A a \in Address : v[a] \in Int /\ w[a] \in Int
      /\ \A a \in Address \ {s, r} : w[a] = v[a]
      /\ w[r] = v[r] + tx.value
      /\ w[s] = v[s] - tx.value - Fee(tx, fee)
      /\ DOMAIN v = Address /\ DOMAIN w = Address /\ v = [a \in Address |-> v[a]]
  BY <1>1, <1>2, <1>3 DEF Balances, Accounts
<1> HIDE DEF v, w
<1>5. /\ u[s] = w[s] /\ u[s] \in Int
      /\ \A a \in Address \ {s} : u[a] = v[a]
      /\ \A a \in Address : u[a] \in Int
      /\ \A a \in Address \ {r} : w[a] = u[a]
      /\ u[r] = v[r]
  BY <1>2, <1>4
<1> HIDE DEF u, s, r
<1>6. SumFunctionOnSet(u, Address) = SumFunctionOnSet(v, Address) - v[s] + u[s]
  BY <1>2, <1>4, <1>5, SumChange
<1>7. SumFunctionOnSet(w, Address) = SumFunctionOnSet(u, Address) - u[r] + w[r]
  BY <1>2, <1>4, <1>5, SumChange
<1>8. /\ SumFunctionOnSet(v, Address) \in Int /\ v[s] \in Int /\ v[r] \in Int
  BY <1>2, <1>4, SumInt
<1>9. SumFunctionOnSet(w, Address)
        = SumFunctionOnSet(v, Address) - Fee(tx, fee)
  BY <1>2, <1>4, <1>5, <1>6, <1>7, <1>8
<1>10. /\ SumFunction(Balances(new.accounts)) = SumFunctionOnSet(w, Address)
       /\ SumFunction(Balances(result.accounts)) = SumFunctionOnSet(v, Address)
  BY <1>1, <1>4 DEF SumFunction, SumFunctionOnSet, FoldFunction, v, w, old
<1> QED
  BY <1>1, <1>2, <1>8, <1>9, <1>10 DEF new

----------------------------------------------------------------------------
(***************************************************************************)
(* What the first i transactions of a block have done.                     *)
(***************************************************************************)
LEMMA RunStep ==
  ASSUME NEW accounts \in Accounts, NEW txs \in Seq(Transactions), NEW fee \in Nat,
         NEW run, IsRun(run, accounts, txs, fee), NEW i \in 1..Len(txs), run[i].valid
  PROVE  /\ run[i - 1] \in Results /\ txs[i] \in Transactions
         /\ run[i] = ApplyTransaction(run[i - 1], txs[i], fee)
         /\ run[i - 1].valid /\ Acceptable(run[i - 1], txs[i], fee)
<1>1. run[i - 1] \in Results /\ txs[i] \in Transactions
      /\ run[i] = ApplyTransaction(run[i - 1], txs[i], fee)
  BY DEF IsRun
<1>2. ApplyTransaction(run[i - 1], txs[i], fee).valid
  BY <1>1
<1> QED
  BY <1>1, <1>2, AppliedFacts

\* The hashes and the gas; no transaction is twice in a block.
LEMMA RunHashes ==
  ASSUME NEW accounts \in Accounts, NEW txs \in Seq(Transactions), NEW fee \in Nat,
         NEW run, IsRun(run, accounts, txs, fee)
  PROVE  \A i \in 0..Len(txs) : run[i].valid =>
           /\ run[i].seen = {txs[j].hash : j \in 1..i}
           /\ run[i].gas = i * IntrinsicGas
           /\ \A j, k \in 1..i : txs[j].hash = txs[k].hash => j = k
<1> DEFINE P(i) == /\ run[i].seen = {txs[j].hash : j \in 1..i}
                   /\ run[i].gas = i * IntrinsicGas
                   /\ \A j, k \in 1..i : txs[j].hash = txs[k].hash => j = k
           good == {i \in 0..Len(txs) : run[i].valid => P(i)}
<1>1. Len(txs) \in Nat
  OBVIOUS
<1>2. 0 \in good
  <2>1. run[0].seen = {} /\ run[0].gas = 0
    BY DEF IsRun, Start
  <2>2. 0 * IntrinsicGas = 0
    BY KernelFacts
  <2>3. 1..0 = {}
    OBVIOUS
  <2> QED
    BY <2>1, <2>2, <2>3
<1>3. ASSUME NEW i \in 1..Len(txs), i - 1 \in good PROVE i \in good
  <2> SUFFICES ASSUME run[i].valid PROVE P(i)
    OBVIOUS
  <2>1. /\ run[i - 1] \in Results /\ txs[i] \in Transactions
        /\ run[i] = ApplyTransaction(run[i - 1], txs[i], fee)
        /\ run[i - 1].valid /\ Acceptable(run[i - 1], txs[i], fee)
    BY RunStep
  <2>2. P(i - 1)
    BY <1>3, <2>1
  <2>3. /\ run[i].seen = run[i - 1].seen \cup {txs[i].hash}
        /\ run[i].gas = run[i - 1].gas + IntrinsicGas
    BY <2>1, AppliedFacts
  <2>4. txs[i].hash \notin run[i - 1].seen
    BY <2>1 DEF Acceptable
  <2>5. 1..i = 1..(i - 1) \cup {i}
    OBVIOUS
  <2>6. run[i].seen = {txs[j].hash : j \in 1..i}
    BY <2>2, <2>3, <2>5
  <2>7. run[i].gas = i * IntrinsicGas
    <3>1. \A m \in Int : (i - 1) * m + m = i * m
      OBVIOUS
    <3> QED
      BY <2>2, <2>3, <3>1, KernelFacts
  <2>8. \A j \in 1..(i - 1) : txs[j].hash # txs[i].hash
    BY <2>2, <2>4
  <2>9. \A j, k \in 1..i : txs[j].hash = txs[k].hash => j = k
    BY <2>2, <2>5, <2>8
  <2> QED
    BY <2>6, <2>7, <2>9
<1> HIDE DEF good
<1>4. \A i \in 0..Len(txs) : i \in good
  BY <1>1, <1>2, <1>3, UpTo
<1> QED
  BY <1>4 DEF good

\* The nonce selection counts with is the nonce execution arrives at.
Own(txs, i, a) == {k \in 1..i : txs[k].sender = a}

NonceAfter(accounts, txs, i, a) ==
  IF Own(txs, i, a) = {} THEN accounts[a].nonce
                         ELSE txs[Max(Own(txs, i, a))].nonce + 1

LEMMA NextNonceOfPrefix ==
  ASSUME NEW accounts, NEW txs \in Seq(Transactions), NEW i \in 0..Len(txs), NEW a
  PROVE  NextNonce(accounts, SubSeq(txs, 1, i), a) = NonceAfter(accounts, txs, i, a)
<1> DEFINE own == {k \in 1..i : txs[k].sender = a}
<1>1. PICK c : c = SubSeq(txs, 1, i)
  OBVIOUS
<1>2. DOMAIN c = 1..i /\ \A k \in 1..i : c[k] = txs[k]
  BY <1>1
<1>3. {k \in DOMAIN c : c[k].sender = a} = own
  BY <1>2
<1>4. own # {} => Max(own) \in own
  <2>1. own \in SUBSET (1..i) /\ i \in Nat
    OBVIOUS
  <2> HIDE DEF own
  <2> QED
    BY <2>1, MaxFacts
<1>5. own # {} => c[Max(own)] = txs[Max(own)]
  BY <1>2, <1>4
<1> HIDE DEF own
<1>6. NextNonce(accounts, c, a) =
        IF own = {} THEN accounts[a].nonce ELSE c[Max(own)].nonce + 1
  BY <1>3 DEF NextNonce
<1> QED
  BY <1>1, <1>5, <1>6 DEF own, Own, NonceAfter

LEMMA RunNonces ==
  ASSUME NoSelfTransfer,
         NEW accounts \in Accounts, NEW txs \in Seq(Transactions), NEW fee \in Nat,
         NEW run, IsRun(run, accounts, txs, fee)
  PROVE  \A i \in 0..Len(txs) : run[i].valid =>
           \A a \in Address :
             run[i].accounts[a].nonce = NextNonce(accounts, SubSeq(txs, 1, i), a)
<1> DEFINE good == {i \in 0..Len(txs) : run[i].valid =>
                      \A a \in Address : run[i].accounts[a].nonce = NonceAfter(accounts, txs, i, a)}
<1>1. Len(txs) \in Nat
  OBVIOUS
<1>2. 0 \in good
  <2>1. \A a : Own(txs, 0, a) = {}
    BY DEF Own
  <2>2. run[0].accounts = accounts
    BY DEF IsRun, Start
  <2> QED
    BY <2>1, <2>2 DEF NonceAfter
<1>3. \A i \in 0..Len(txs) : \A a :
        NextNonce(accounts, SubSeq(txs, 1, i), a) = NonceAfter(accounts, txs, i, a)
  <2> SUFFICES ASSUME NEW i \in 0..Len(txs), NEW a
               PROVE  NextNonce(accounts, SubSeq(txs, 1, i), a) = NonceAfter(accounts, txs, i, a)
    OBVIOUS
  <2> QED
    BY NextNonceOfPrefix
<1>4. ASSUME NEW i \in 1..Len(txs), i - 1 \in good PROVE i \in good
  <2> SUFFICES ASSUME run[i].valid, NEW a \in Address
               PROVE  run[i].accounts[a].nonce = NonceAfter(accounts, txs, i, a)
    OBVIOUS
  <2>1. /\ run[i - 1] \in Results /\ txs[i] \in Transactions
        /\ run[i] = ApplyTransaction(run[i - 1], txs[i], fee)
        /\ run[i - 1].valid
    BY RunStep
  <2>2. run[i - 1].accounts[a].nonce = NonceAfter(accounts, txs, i - 1, a)
    BY <1>4, <2>1
  <2>3. run[i].accounts[a].nonce =
          IF a = txs[i].sender THEN txs[i].nonce + 1
                               ELSE run[i - 1].accounts[a].nonce
    BY <2>1, AppliedNonces
  <2>4. CASE a = txs[i].sender
    <3>1. i \in Own(txs, i, a) /\ Own(txs, i, a) \in SUBSET (1..i) /\ i \in Nat
      BY <2>4 DEF Own
    <3>2. PICK s : s = Own(txs, i, a)
      OBVIOUS
    <3>3. Max(s) \in s /\ i <= Max(s)
      BY <3>1, <3>2, MaxFacts
    <3>4. Max(s) = i
      BY <3>1, <3>2, <3>3
    <3> QED
      BY <2>3, <2>4, <3>1, <3>2, <3>4 DEF NonceAfter
  <2>5. CASE a # txs[i].sender
    <3>1. Own(txs, i, a) = Own(txs, i - 1, a)
      BY <2>5 DEF Own
    <3> QED
      BY <2>2, <2>3, <2>5, <3>1 DEF NonceAfter
  <2> QED
    BY <2>4, <2>5
<1> HIDE DEF good
<1>5. \A i \in 0..Len(txs) : i \in good
  BY <1>1, <1>2, <1>4, UpTo
<1> QED
  BY <1>3, <1>5 DEF good

\* Every transaction so far has a nonce its sender has gone past.
LEMMA RunPast ==
  ASSUME NoSelfTransfer,
         NEW accounts \in Accounts, NEW txs \in Seq(Transactions), NEW fee \in Nat,
         NEW run, IsRun(run, accounts, txs, fee)
  PROVE  \A i \in 0..Len(txs) : run[i].valid =>
           /\ \A a \in Address : run[i].accounts[a].nonce >= accounts[a].nonce
           /\ \A j \in 1..i :
                /\ accounts[txs[j].sender].nonce <= txs[j].nonce
                /\ txs[j].nonce < run[i].accounts[txs[j].sender].nonce
<1> DEFINE grown(i) == \A a \in Address :
                         run[i].accounts[a].nonce >= accounts[a].nonce
           past(i) == \A j \in 1..i :
                        /\ accounts[txs[j].sender].nonce <= txs[j].nonce
                        /\ txs[j].nonce < run[i].accounts[txs[j].sender].nonce
           good == {i \in 0..Len(txs) : run[i].valid => grown(i) /\ past(i)}
<1>1. Len(txs) \in Nat
  OBVIOUS
<1>2. 0 \in good
  <2>1. run[0].accounts = accounts
    BY DEF IsRun, Start
  <2>2. 1..0 = {}
    OBVIOUS
  <2>3. \A a \in Address : accounts[a].nonce \in Nat
    BY DEF Accounts
  <2> QED
    BY <2>1, <2>2, <2>3
<1>3. ASSUME NEW i \in 1..Len(txs), i - 1 \in good PROVE i \in good
  <2> SUFFICES ASSUME run[i].valid PROVE grown(i) /\ past(i)
    OBVIOUS
  <2> DEFINE old == run[i - 1].accounts
             new == run[i].accounts
             s == txs[i].sender
  <2>1. /\ run[i - 1] \in Results /\ txs[i] \in Transactions
        /\ run[i] = ApplyTransaction(run[i - 1], txs[i], fee)
        /\ run[i - 1].valid
    BY RunStep
  <2>2. grown(i - 1) /\ past(i - 1)
    BY <1>3, <2>1
  <2>3. \A a \in Address : new[a].nonce = IF a = s THEN txs[i].nonce + 1 ELSE old[a].nonce
    BY <2>1, AppliedNonces
  <2>4. txs[i].nonce = old[s].nonce
    BY <2>1, AppliedFacts
  <2>5. /\ \A a \in Address : old[a].nonce \in Nat /\ accounts[a].nonce \in Nat
        /\ s \in Address /\ txs[i].nonce \in Nat
    BY <2>1, TxFacts DEF Results, Accounts
  <2>6. \A j \in 1..i - 1 : txs[j].sender \in Address /\ txs[j].nonce \in Nat
    <3>1. \A j \in 1..i - 1 : txs[j] \in Transactions
      OBVIOUS
    <3> QED
      BY <3>1, TxFacts
  <2> HIDE DEF old, new, s
  <2>7. \A a \in Address : new[a].nonce >= old[a].nonce /\ new[a].nonce \in Nat
    BY <2>3, <2>4, <2>5
  <2>8. \A a \in Address : old[a].nonce >= accounts[a].nonce
    BY <2>2 DEF old
  <2>9. grown(i)
    <3>1. \A a \in Address : new[a].nonce >= accounts[a].nonce
      BY <2>5, <2>7, <2>8
    <3> QED
      BY <3>1 DEF new
  <2>10. ASSUME NEW j \in 1..i
         PROVE  /\ accounts[txs[j].sender].nonce <= txs[j].nonce
                /\ txs[j].nonce < new[txs[j].sender].nonce
    <3>1. CASE j = i
      <4>1. accounts[s].nonce <= txs[i].nonce /\ txs[i].nonce < new[s].nonce
        BY <2>3, <2>4, <2>5, <2>8
      <4> QED
        BY <3>1, <4>1 DEF s
    <3>2. CASE j # i
      <4>1. j \in 1..i - 1
        BY <3>2
      <4>2. /\ accounts[txs[j].sender].nonce <= txs[j].nonce
            /\ txs[j].nonce < old[txs[j].sender].nonce
        BY <2>2, <4>1 DEF old
      <4>3. txs[j].sender \in Address /\ txs[j].nonce \in Nat
        BY <2>6, <4>1
      <4>4. PICK a \in Address : a = txs[j].sender
        BY <4>3
      <4>5. /\ txs[j].nonce < old[a].nonce /\ old[a].nonce <= new[a].nonce
            /\ old[a].nonce \in Nat /\ new[a].nonce \in Nat /\ txs[j].nonce \in Nat
        BY <2>5, <2>7, <4>2, <4>3, <4>4
      <4>6. txs[j].nonce < new[a].nonce
        BY <4>5
      <4> QED
        BY <4>2, <4>4, <4>6
    <3> QED
      BY <3>1, <3>2
  <2>11. past(i)
    BY <2>10 DEF new
  <2> QED
    BY <2>9, <2>11
<1> HIDE DEF good
<1>4. \A i \in 0..Len(txs) : i \in good
  BY <1>1, <1>2, <1>3, UpTo
<1> QED
  BY <1>4 DEF good

----------------------------------------------------------------------------
(***************************************************************************)
(* A candidate fails to execute for one of two reasons only: the next base *)
(* fee is above a cap, or a sender's earlier transactions leave it short   *)
(* (mempool.py selects at the head's fee and by nonce alone).              *)
(***************************************************************************)
THEOREM CandidateFailsHolds ==
  ASSUME NoSelfTransfer
  PROVE  Spec => []CandidateFailsOnFeeOrFunds
<1>1. IInv => CandidateFailsOnFeeOrFunds
  <2> SUFFICES ASSUME IInv PROVE CandidateFailsOnFeeOrFunds
    OBVIOUS
  <2> DEFINE txs == Selected(pool, head)
             fee == NextBaseFee(head.baseFee, head.gas)
             ran(i) == ExecuteBlock(head.accounts, SubSeq(txs, 1, i), fee)
  <2>1. /\ pool \subseteq Transactions /\ IsFiniteSet(pool) /\ head \in Blocks
        /\ Sound(pool)
    BY DEF IInv, TypeOK, Pooled, Sound
  <2>2. /\ head.accounts \in Accounts /\ head.baseFee \in Nat \ {0} /\ head.gas \in Nat
        /\ fee \in Nat
    BY <2>1, BlockFields, NextBaseFeeType
  <2>3. /\ txs \in Seq(pool) /\ txs \in Seq(Transactions) /\ Len(txs) <= BlockLength
        /\ InNonceOrder(txs, head.accounts, head.baseFee)
    BY <2>1, SelectedType
  <2> SUFFICES ASSUME NEW i \in DOMAIN txs, ran(i - 1).valid, ~ran(i).valid,
                      fee <= txs[i].cap,
                      ran(i - 1).accounts[txs[i].sender].balance
                        >= txs[i].value + Fee(txs[i], fee)
               PROVE  FALSE
    <3>1. ASSUME NEW i \in DOMAIN txs, ran(i - 1).valid, ~ran(i).valid,
                 ~(txs[i].cap < fee),
                 ~(ran(i - 1).accounts[txs[i].sender].balance
                     < txs[i].value + Fee(txs[i], fee))
          PROVE  FALSE
      <4>1. txs[i] \in Transactions /\ txs[i].cap \in Nat
        BY <2>3, TxFacts
      <4>2. fee <= txs[i].cap
        BY <2>2, <3>1, <4>1
      <4>3. Fee(txs[i], fee) \in Nat /\ txs[i].value \in Nat /\ txs[i].sender \in Address
        BY <2>2, <4>1, <4>2, FeeType, TxFacts
      <4>4. i \in 1..Len(txs) /\ Len(txs) \in Nat /\ i - 1 \in 0..Len(txs)
        BY <2>3
      <4>5. PICK run : /\ IsRun(run, head.accounts, txs, fee)
                       /\ \A k \in 0..Len(txs) : ran(k) = run[k]
        BY <2>2, <2>3, ExecuteBlockRun
      <4>6. ran(i - 1) \in Results
        BY <4>4, <4>5 DEF IsRun
      <4>7. ran(i - 1).accounts[txs[i].sender].balance \in Nat
        BY <4>3, <4>6 DEF Results, Accounts
      <4>8. PICK b, c : /\ b = ran(i - 1).accounts[txs[i].sender].balance
                        /\ c = txs[i].value + Fee(txs[i], fee)
        OBVIOUS
      <4>9. b \in Nat /\ c \in Nat /\ ~(b < c)
        BY <3>1, <4>3, <4>7, <4>8
      <4>10. b >= c
        BY <4>9
      <4> QED
        BY <3>1, <4>2, <4>8, <4>10
    <3> QED
      BY <3>1 DEF CandidateFailsOnFeeOrFunds
  <2> HIDE DEF txs, fee
  <2>4. i \in 1..Len(txs) /\ Len(txs) \in Nat /\ i - 1 \in 0..Len(txs)
        /\ txs[i] \in pool /\ txs[i] \in Transactions
    BY <2>3
  <2>5. PICK run : /\ IsRun(run, head.accounts, txs, fee)
                   /\ \A k \in 0..Len(txs) :
                        ExecuteBlock(head.accounts, SubSeq(txs, 1, k), fee) = run[k]
    BY <2>2, <2>3, ExecuteBlockRun
  <2>6. /\ run[i - 1].valid /\ ~run[i].valid
        /\ run[i - 1].accounts[txs[i].sender].balance
             >= txs[i].value + Fee(txs[i], fee)
        /\ run[i] = ApplyTransaction(run[i - 1], txs[i], fee)
    BY <2>4, <2>5 DEF IsRun
  <2>7. ~Acceptable(run[i - 1], txs[i], fee)
    BY <2>6 DEF ApplyTransaction
  <2>8. /\ IntrinsicGas <= txs[i].gas /\ txs[i].gas <= BlockGasLimit
        /\ txs[i].tip <= txs[i].cap
    BY <2>4, <2>1 DEF Sound
  <2>9. txs[i].sender \in Address /\ txs[i].nonce \in Nat
    BY <2>4, TxFacts
  <2>10. txs[i].nonce = run[i - 1].accounts[txs[i].sender].nonce
    <3>1. txs[i].nonce
            = NextNonce(head.accounts, SubSeq(txs, 1, i - 1), txs[i].sender)
      BY <2>3 DEF InNonceOrder
    <3>2. \A a \in Address : run[i - 1].accounts[a].nonce
            = NextNonce(head.accounts, SubSeq(txs, 1, i - 1), a)
      BY <2>2, <2>3, <2>4, <2>5, <2>6, RunNonces
    <3> QED
      BY <2>9, <3>1, <3>2
  <2>11. /\ run[i - 1].seen = {txs[j].hash : j \in 1..(i - 1)}
         /\ run[i - 1].gas = (i - 1) * IntrinsicGas
    BY <2>2, <2>3, <2>4, <2>5, <2>6, RunHashes
  <2>12. txs[i].hash \notin run[i - 1].seen
    <3> SUFFICES ASSUME NEW j \in 1..(i - 1), txs[j].hash = txs[i].hash PROVE FALSE
      BY <2>11
    <3>1. txs[j] \in Transactions
      BY <2>3, <2>4
    <3>2. txs[j] = txs[i]
      BY <2>4, <3>1, PipelineAssumption
    <3>3. txs[j].nonce < run[i - 1].accounts[txs[j].sender].nonce
      BY <2>2, <2>3, <2>4, <2>5, <2>6, RunPast
    <3> QED
      BY <2>9, <2>10, <3>2, <3>3
  <2>13. run[i - 1].gas + IntrinsicGas <= BlockGasLimit
    <3>1. \A m, k, n \in Nat : k <= n => k * m <= n * m
      OBVIOUS
    <3>2. i * IntrinsicGas <= BlockLength * IntrinsicGas
      BY <2>3, <2>4, <3>1, BlockLengthFits, KernelFacts
    <3>3. \A m \in Nat : (i - 1) * m + m = i * m
      BY <2>4
    <3>4. i * IntrinsicGas \in Nat /\ BlockLength * IntrinsicGas \in Nat
      BY <2>4, BlockLengthFits, KernelFacts
    <3>5. run[i - 1].gas + IntrinsicGas = i * IntrinsicGas
      BY <2>11, <3>3, KernelFacts
    <3> QED
      BY <3>2, <3>4, <3>5, BlockLengthFits, KernelFacts
  <2> QED
    BY <2>6, <2>7, <2>8, <2>10, <2>12, <2>13 DEF Acceptable
<1> QED
  BY <1>1, Invariant, PTL

----------------------------------------------------------------------------
(***************************************************************************)
(* What a block adds to the chain below it.                                *)
(***************************************************************************)
Adds(run, fee, parent, txs, block) ==
  /\ IsRun(run, parent.accounts, txs, fee) /\ fee \in Nat
  /\ run[Len(txs)].valid
  /\ block.accounts = run[Len(txs)].accounts
  /\ block.fees = run[Len(txs)].fees
  /\ block.path = Append(parent.path, HashesIn(txs))

LEMMA LinkRun ==
  ASSUME NEW parent \in Blocks, NEW txs \in Seq(Transactions), NEW block,
         Extension(parent, txs) = [valid |-> TRUE, block |-> block]
  PROVE  \E run, fee : Adds(run, fee, parent, txs, block)
<1> DEFINE fee == NextBaseFee(parent.baseFee, parent.gas)
           result == ExecuteBlock(parent.accounts, txs, fee)
<1>1. parent.accounts \in Accounts /\ fee \in Nat
  BY BlockFields, NextBaseFeeType
<1>2. /\ result.valid = TRUE /\ block.accounts = result.accounts
      /\ block.fees = result.fees /\ block.path = Append(parent.path, HashesIn(txs))
  <2>1. PICK next : next = Extension(parent, txs)
    OBVIOUS
  <2>2. next.valid = TRUE /\ next.block = block
    BY <2>1
  <2>3. /\ next.valid = result.valid
        /\ next.block = [path |-> Append(parent.path, HashesIn(txs)), baseFee |-> fee,
                         gas |-> result.gas, accounts |-> result.accounts,
                         fees |-> result.fees]
    BY <2>1 DEF Extension, HashesIn
  <2> HIDE DEF result, fee
  <2> QED
    BY <2>2, <2>3
<1> HIDE DEF fee
<1>3. PICK run : IsRun(run, parent.accounts, txs, fee) /\ result = run[Len(txs)]
  BY <1>1, RunExists
<1> QED
  BY <1>1, <1>2, <1>3 DEF Adds

LEMMA InPathOfNext ==
  ASSUME NEW parent \in Blocks, NEW txs \in Seq(Transactions), NEW block,
         block.path = Append(parent.path, HashesIn(txs))
  PROVE  InPath(block) = InPath(parent) \cup {txs[j].hash : j \in 1..Len(txs)}
<1> DEFINE n == Len(parent.path)
<1>1. parent.path \in Seq(Seq(Nat)) /\ n \in Nat /\ DOMAIN parent.path = 1..n
  BY BlockFields
<1>2. /\ DOMAIN block.path = 1..(n + 1) /\ block.path[n + 1] = HashesIn(txs)
      /\ \A i \in 1..n : block.path[i] = parent.path[i]
  BY <1>1
<1>3. ToSet(HashesIn(txs)) = {txs[j].hash : j \in 1..Len(txs)}
  BY DEF ToSet, HashesIn
<1>4. InPath(block) = UNION {ToSet(block.path[i]) : i \in 1..(n + 1)}
  BY <1>2 DEF InPath
<1>5. InPath(parent) = UNION {ToSet(block.path[i]) : i \in 1..n}
  BY <1>1, <1>2 DEF InPath
<1>6. 1..(n + 1) = 1..n \cup {n + 1}
  BY <1>1
<1> QED
  BY <1>2, <1>3, <1>4, <1>5, <1>6

\* What is in the chain has a nonce its sender has gone past.
Past(block) ==
  \A tx \in Transactions :
    tx.hash \in InPath(block) => tx.nonce < block.accounts[tx.sender].nonce

LEMMA PastNext ==
  ASSUME NoSelfTransfer,
         NEW parent \in Blocks, NEW txs \in Seq(Transactions), NEW block,
         Extension(parent, txs) = [valid |-> TRUE, block |-> block], Past(parent)
  PROVE  /\ Past(block)
         /\ \A j \in 1..Len(txs) : txs[j].hash \notin InPath(parent)
<1>0. PICK run, fee : Adds(run, fee, parent, txs, block)
  BY LinkRun
<1>1. /\ IsRun(run, parent.accounts, txs, fee) /\ fee \in Nat /\ run[Len(txs)].valid
      /\ block.accounts = run[Len(txs)].accounts
      /\ block.path = Append(parent.path, HashesIn(txs))
  BY <1>0 DEF Adds
<1>2. parent.accounts \in Accounts /\ Len(txs) \in 0..Len(txs)
  BY BlockFields
<1>3. \A a \in Address : parent.accounts[a].nonce \in Nat
  BY <1>2 DEF Accounts
<1>4. \A a \in Address : block.accounts[a].nonce \in Nat
  BY <1>1, <1>2 DEF IsRun, Results, Accounts
<1>5. /\ \A a \in Address : block.accounts[a].nonce >= parent.accounts[a].nonce
      /\ \A j \in 1..Len(txs) :
           /\ parent.accounts[txs[j].sender].nonce <= txs[j].nonce
           /\ txs[j].nonce < block.accounts[txs[j].sender].nonce
  BY <1>1, <1>2, RunPast
<1>6. \A j \in 1..Len(txs) : txs[j] \in Transactions
  OBVIOUS
<1>7. \A t \in Transactions : t.sender \in Address /\ t.nonce \in Nat
  BY TxFacts
<1>8. ASSUME NEW j \in 1..Len(txs), txs[j].hash \in InPath(parent) PROVE FALSE
  <2>1. PICK t \in Transactions : t = txs[j]
    BY <1>6
  <2>2. t.nonce < parent.accounts[t.sender].nonce
    BY <1>8, <2>1 DEF Past
  <2>3. parent.accounts[t.sender].nonce <= t.nonce
    BY <1>5, <2>1
  <2> QED
    BY <1>3, <1>7, <2>2, <2>3
<1>9. Past(block)
  <2> SUFFICES ASSUME NEW t \in Transactions, t.hash \in InPath(block)
               PROVE  t.nonce < block.accounts[t.sender].nonce
    BY DEF Past
  <2>1. CASE t.hash \in InPath(parent)
    <3>1. t.nonce < parent.accounts[t.sender].nonce
      BY <2>1 DEF Past
    <3> QED
      BY <1>3, <1>4, <1>5, <1>7, <3>1
  <2>2. CASE t.hash \notin InPath(parent)
    <3>1. PICK j \in 1..Len(txs) : txs[j].hash = t.hash
      BY <1>1, <2>2, InPathOfNext
    <3>2. txs[j] = t
      BY <1>6, <3>1, PipelineAssumption
    <3> QED
      BY <1>5, <3>2
  <2> QED
    BY <2>1, <2>2
<1> QED
  BY <1>8, <1>9

LEMMA ChainPast ==
  ASSUME NoSelfTransfer, NEW chain, Chain(chain)
  PROVE  \A h \in 0..Len(chain) : Past(TipOf(chain, h))
<1> DEFINE good == {h \in 0..Len(chain) : Past(TipOf(chain, h))}
<1>1. Len(chain) \in Nat
  BY DEF Chain
<1>2. 0 \in good
  <2>1. InPath(Genesis) = {}
    BY DEF InPath, Genesis
  <2> QED
    BY <1>1, <2>1 DEF Past, TipOf
<1>3. ASSUME NEW h \in 1..Len(chain), h - 1 \in good PROVE h \in good
  <2>1. PICK txs \in Seq(Transactions) :
          Extension(TipOf(chain, h - 1), txs) = [valid |-> TRUE, block |-> chain[h]]
    BY DEF Chain, Linked
  <2>2. h - 1 \in 0..Len(chain)
    BY <1>1
  <2>3. TipOf(chain, h - 1) \in Blocks /\ Past(TipOf(chain, h - 1))
    BY <1>3, <2>2, TipFacts
  <2>4. Past(chain[h])
    BY <2>1, <2>3, PastNext
  <2> QED
    BY <1>1, <2>4 DEF TipOf
<1> HIDE DEF good
<1>4. \A h \in 0..Len(chain) : h \in good
  BY <1>1, <1>2, <1>3, UpTo
<1> QED
  BY <1>4 DEF good

LEMMA HeadPast ==
  ASSUME NoSelfTransfer, NEW chain, Chain(chain), NEW block \in Blocks,
         OnChain(block, chain)
  PROVE  Past(block)
<1>1. Height(block) \in 0..Len(chain)
  BY BlockFields DEF OnChain, Chain
<1> DEFINE tip == TipOf(chain, Height(block))
<1>2. tip \in Blocks /\ Past(tip) /\ CheckpointOf(block) = CheckpointOf(tip)
  BY <1>1, TipFacts, ChainPast DEF OnChain
<1> HIDE DEF tip
<1>3. block.accounts = tip.accounts /\ block.path = tip.path
  BY <1>2, ExtensionOfCheckpoint
<1> QED
  BY <1>2, <1>3 DEF Past, InPath

----------------------------------------------------------------------------
(***************************************************************************)
(* What a node has included it never pools again, whether clients resubmit *)
(* it or an old snapshot holds it (mempool.py, node_pipeline.py).          *)
(***************************************************************************)
LEMMA WithinBoundaryIsNew ==
  ASSUME NoSelfTransfer, IInv, NEW tx \in Transactions, WithinBoundary(tx)
  PROVE  tx.hash \notin InPath(head)
<1>1. head \in Blocks /\ Past(head)
  BY HeadPast DEF IInv, TypeOK, Following
<1>2. tx.nonce >= head.accounts[tx.sender].nonce /\ tx.nonce \in Nat
      /\ tx.sender \in Address
  BY TxFacts DEF WithinBoundary
<1>3. head.accounts[tx.sender].nonce \in Nat
  BY <1>1, <1>2, BlockFields DEF Accounts
<1> QED
  BY <1>1, <1>2, <1>3 DEF Past

LEMMA IncludedStep ==
  ASSUME NoSelfTransfer, IInv, [Next]_vars, IncludedLeavesPool
  PROVE  IncludedLeavesPool'
<1>1. /\ head \in Blocks /\ checkpoint \in Blocks /\ pool \subseteq Transactions
      /\ hashes = Hashes(pool) /\ snapshot \subseteq Transactions
  BY DEF IInv, TypeOK, Pooled
<1>2. CASE UNCHANGED <<hashes, head>>
  BY <1>2 DEF IncludedLeavesPool, InPath
<1>3. ASSUME NEW tx \in Transactions, Admit(tx) PROVE IncludedLeavesPool'
  <2>1. tx.hash \notin InPath(head)
    BY <1>3, WithinBoundaryIsNew DEF Admit
  <2>2. hashes' \subseteq hashes \cup {tx.hash} /\ head' = head
    BY <1>3 DEF Admit
  <2> QED
    BY <2>1, <2>2 DEF IncludedLeavesPool, InPath
<1>4. CASE hashes' = {}
  BY <1>4 DEF IncludedLeavesPool
<1>5. CASE Prune
  <2>1. hashes' \subseteq hashes /\ head' = head
    BY <1>5 DEF Prune
  <2> QED
    BY <2>1 DEF IncludedLeavesPool, InPath
<1>6. CASE RestoreSnapshot
  <2>1. \A tx \in snapshot : tx.hash \notin InPath(head)
    BY <1>1, <1>6, WithinBoundaryIsNew DEF RestoreSnapshot
  <2>2. hashes' = Hashes(snapshot) /\ head' = head
    BY <1>6 DEF RestoreSnapshot
  <2> QED
    BY <2>1, <2>2 DEF IncludedLeavesPool, InPath, Hashes
<1>7. CASE Commit
  <2> DEFINE block == pending.block
             txs == pending.txs
  <2>1. /\ txs \in Seq(Transactions) /\ block \in Blocks
        /\ Extension(head, txs) = [valid |-> TRUE, block |-> block]
    BY <1>7, CommitFacts
  <2>2. /\ head' = block
        /\ hashes' = hashes \ (Hashes(ToSet(txs) \cap pool))
    BY <1>7 DEF Commit
  <2> HIDE DEF block, txs
  <2>3. block.path = Append(head.path, HashesIn(txs))
    <3>1. Extension(head, txs).block = block
      BY <2>1
    <3> QED
      BY <1>1, <2>1, <3>1, ExtensionFacts
  <2>4. InPath(block) = InPath(head) \cup {txs[j].hash : j \in 1..Len(txs)}
    BY <1>1, <2>1, <2>3, InPathOfNext
  <2>5. ToSet(txs) \in SUBSET Transactions
        /\ \A j \in 1..Len(txs) : txs[j] \in ToSet(txs) /\ txs[j] \in Transactions
    BY <2>1 DEF ToSet
  <2>6. hashes' = Hashes(pool \ ToSet(txs))
    BY <1>1, <2>2, <2>5, HashesOf
  <2>7. \A j \in 1..Len(txs) : txs[j].hash \notin hashes'
    <3>1. pool \ ToSet(txs) \in SUBSET Transactions
      BY <1>1
    <3> QED
      BY <2>5, <2>6, <3>1, HashesOf
  <2>8. hashes' \subseteq hashes
    BY <2>2
  <2>9. hashes' \cap InPath(block) = {}
    BY <2>4, <2>7, <2>8 DEF IncludedLeavesPool
  <2>10. InPath(head)' = InPath(block)
    BY <2>2 DEF InPath
  <2> QED
    BY <2>9, <2>10 DEF IncludedLeavesPool
<1> QED
  BY <1>2, <1>3, <1>4, <1>5, <1>6, <1>7
     DEF Next, vars, Propose, OthersFinalize, ExportSnapshot, Restart,
         ExportCheckpoint, RestoreCheckpoint

THEOREM IncludedLeavesPoolHolds ==
  ASSUME NoSelfTransfer
  PROVE  Spec => []IncludedLeavesPool
<1>1. Init => IncludedLeavesPool
  BY DEF Init, IncludedLeavesPool
<1>2. IInv /\ [Next]_vars /\ IncludedLeavesPool => IncludedLeavesPool'
  BY IncludedStep
<1> QED
  BY <1>1, <1>2, Invariant, PTL DEF Spec

----------------------------------------------------------------------------
(***************************************************************************)
(* No replay, and no coin made or lost, block after block.                 *)
(***************************************************************************)
SeenFrom(run, i, a) ==
  {tx \in Transactions : tx.sender = a /\ tx.hash \in run[i].seen}

LEMMA RunCounts ==
  ASSUME NoSelfTransfer,
         NEW accounts \in Accounts, NEW txs \in Seq(Transactions), NEW fee \in Nat,
         NEW run, IsRun(run, accounts, txs, fee)
  PROVE  \A i \in 0..Len(txs) : run[i].valid =>
           \A a \in Address :
             /\ IsFiniteSet(SeenFrom(run, i, a))
             /\ run[i].accounts[a].nonce
                  = accounts[a].nonce + Cardinality(SeenFrom(run, i, a))
<1> DEFINE counts(i) ==
             \A a \in Address :
               /\ IsFiniteSet(SeenFrom(run, i, a))
               /\ run[i].accounts[a].nonce
                    = accounts[a].nonce + Cardinality(SeenFrom(run, i, a))
           good == {i \in 0..Len(txs) : run[i].valid => counts(i)}
<1>1. Len(txs) \in Nat
  OBVIOUS
<1>2. 0 \in good
  <2>1. run[0].accounts = accounts /\ run[0].seen = {}
    BY DEF IsRun, Start
  <2>2. \A a : SeenFrom(run, 0, a) = {}
    BY <2>1 DEF SeenFrom
  <2>3. \A a \in Address : accounts[a].nonce \in Nat
    BY DEF Accounts
  <2>4. IsFiniteSet({}) /\ Cardinality({}) = 0
    BY FS_EmptySet
  <2>5. ASSUME NEW a \in Address
        PROVE  /\ IsFiniteSet(SeenFrom(run, 0, a))
               /\ run[0].accounts[a].nonce
                    = accounts[a].nonce + Cardinality(SeenFrom(run, 0, a))
    <3>1. accounts[a].nonce + 0 = accounts[a].nonce
      BY <2>3
    <3> QED
      BY <2>1, <2>2, <2>4, <3>1
  <2> QED
    BY <1>1, <2>5
<1>3. ASSUME NEW i \in 1..Len(txs), i - 1 \in good PROVE i \in good
  <2> SUFFICES ASSUME run[i].valid, NEW a \in Address
               PROVE  /\ IsFiniteSet(SeenFrom(run, i, a))
                      /\ run[i].accounts[a].nonce
                           = accounts[a].nonce + Cardinality(SeenFrom(run, i, a))
    OBVIOUS
  <2> DEFINE S == SeenFrom(run, i - 1, a)
             T == SeenFrom(run, i, a)
             old == run[i - 1].accounts[a].nonce
  <2>1. /\ run[i - 1] \in Results /\ txs[i] \in Transactions
        /\ run[i] = ApplyTransaction(run[i - 1], txs[i], fee)
        /\ run[i - 1].valid /\ Acceptable(run[i - 1], txs[i], fee)
    BY RunStep
  <2>2. IsFiniteSet(S) /\ old = accounts[a].nonce + Cardinality(S)
    BY <1>3, <2>1
  <2>3. run[i].accounts[a].nonce = IF a = txs[i].sender THEN txs[i].nonce + 1 ELSE old
    BY <2>1, AppliedNonces
  <2>4. /\ txs[i].nonce = run[i - 1].accounts[txs[i].sender].nonce
        /\ run[i].seen = run[i - 1].seen \cup {txs[i].hash}
        /\ txs[i].hash \notin run[i - 1].seen
    BY <2>1, AppliedFacts DEF Acceptable
  <2>5. \A t \in Transactions : t.hash = txs[i].hash => t = txs[i]
    BY <2>1, PipelineAssumption
  <2>6. accounts[a].nonce \in Nat /\ Cardinality(S) \in Nat
    BY <2>2, FS_CardinalityType DEF Accounts
  <2>7. CASE a = txs[i].sender
    <3>1. T = S \cup {txs[i]} /\ txs[i] \notin S
      BY <2>1, <2>4, <2>5, <2>7 DEF SeenFrom
    <3>2. run[i].accounts[a].nonce = old + 1
      BY <2>3, <2>4, <2>7
    <3> HIDE DEF S, T, old
    <3>3. IsFiniteSet(T) /\ Cardinality(T) = Cardinality(S) + 1
      BY <2>2, <3>1, FS_AddElement
    <3>4. run[i].accounts[a].nonce = accounts[a].nonce + Cardinality(T)
      <4>1. PICK m, k, o, c : /\ m = run[i].accounts[a].nonce /\ o = old
                              /\ k = accounts[a].nonce /\ c = Cardinality(S)
        OBVIOUS
      <4>2. o = k + c /\ m = o + 1 /\ k \in Nat /\ c \in Nat
        BY <2>2, <2>6, <3>2, <4>1
      <4>3. m = k + (c + 1)
        BY <4>2
      <4> QED
        BY <3>3, <4>1, <4>3
    <3> QED
      BY <3>3, <3>4 DEF T
  <2>8. CASE a # txs[i].sender
    <3>1. T = S
      BY <2>4, <2>5, <2>8 DEF SeenFrom
    <3> QED
      BY <2>2, <2>3, <2>8, <3>1
  <2> QED
    BY <2>7, <2>8
<1> HIDE DEF good
<1>4. \A i \in 0..Len(txs) : i \in good
  BY <1>1, <1>2, <1>3, UpTo
<1> QED
  BY <1>4 DEF good

LEMMA RunSupply ==
  ASSUME NoSelfTransfer, IsFiniteSet(Address),
         NEW accounts \in Accounts, NEW txs \in Seq(Transactions), NEW fee \in Nat,
         NEW run, IsRun(run, accounts, txs, fee)
  PROVE  \A i \in 0..Len(txs) : run[i].valid =>
           SumFunction(Balances(run[i].accounts)) + run[i].fees
             = SumFunction(Balances(accounts)) + 0
<1> DEFINE kept(i) == SumFunction(Balances(run[i].accounts)) + run[i].fees
                        = SumFunction(Balances(accounts)) + 0
           good == {i \in 0..Len(txs) : run[i].valid => kept(i)}
<1>1. Len(txs) \in Nat
  OBVIOUS
<1>2. 0 \in good
  <2>1. run[0].accounts = accounts /\ run[0].fees = 0
    BY DEF IsRun, Start
  <2> QED
    BY <1>1, <2>1
<1>3. ASSUME NEW i \in 1..Len(txs), i - 1 \in good PROVE i \in good
  <2> SUFFICES ASSUME run[i].valid PROVE kept(i)
    OBVIOUS
  <2>1. /\ run[i - 1] \in Results /\ txs[i] \in Transactions
        /\ run[i] = ApplyTransaction(run[i - 1], txs[i], fee)
        /\ run[i - 1].valid
    BY RunStep
  <2>2. kept(i - 1)
    BY <1>3, <2>1
  <2>3. SumFunction(Balances(run[i].accounts)) + run[i].fees
          = SumFunction(Balances(run[i - 1].accounts)) + run[i - 1].fees
    BY <2>1, AppliedSupply
  <2> QED
    BY <2>2, <2>3
<1> HIDE DEF good
<1>4. \A i \in 0..Len(txs) : i \in good
  BY <1>1, <1>2, <1>3, UpTo
<1> QED
  BY <1>4 DEF good

Unrepeated(path) ==
  \A i, j \in DOMAIN path : \A k \in DOMAIN path[i] : \A l \in DOMAIN path[j] :
    path[i][k] = path[j][l] => <<i, k>> = <<j, l>>

Counted(block) ==
  \A a \in Address :
    /\ IsFiniteSet(Sent(block, a))
    /\ block.accounts[a].nonce = GenesisAccounts[a].nonce + Cardinality(Sent(block, a))

LEMMA UnrepeatedNext ==
  ASSUME NoSelfTransfer,
         NEW parent \in Blocks, NEW txs \in Seq(Transactions), NEW block,
         Extension(parent, txs) = [valid |-> TRUE, block |-> block],
         Past(parent), Unrepeated(parent.path)
  PROVE  Unrepeated(block.path)
<1> DEFINE n == Len(parent.path)
           path == block.path
<1>1. PICK run, fee : Adds(run, fee, parent, txs, block)
  BY LinkRun
<1>2. /\ parent.path \in Seq(Seq(Nat)) /\ n \in Nat /\ DOMAIN parent.path = 1..n
      /\ parent.accounts \in Accounts /\ Len(txs) \in 0..Len(txs)
  BY BlockFields
<1>3. path = Append(parent.path, HashesIn(txs))
  BY <1>1 DEF Adds
<1>4. /\ DOMAIN path = 1..(n + 1) /\ path[n + 1] = HashesIn(txs)
      /\ \A i \in 1..n : path[i] = parent.path[i]
  BY <1>2, <1>3
<1>5. DOMAIN HashesIn(txs) = 1..Len(txs)
      /\ \A k \in 1..Len(txs) : HashesIn(txs)[k] = txs[k].hash
  BY DEF HashesIn
<1>6. \A j, k \in 1..Len(txs) : txs[j].hash = txs[k].hash => j = k
  BY <1>1, <1>2, RunHashes DEF Adds
<1>7. \A j \in 1..Len(txs) : txs[j].hash \notin InPath(parent)
  BY PastNext
<1>8. \A i \in 1..n : \A k \in DOMAIN path[i] : path[i][k] \in InPath(parent)
  BY <1>2, <1>4 DEF InPath, ToSet
<1> SUFFICES ASSUME NEW i \in 1..(n + 1), NEW j \in 1..(n + 1),
                    NEW k \in DOMAIN path[i], NEW l \in DOMAIN path[j],
                    path[i][k] = path[j][l]
             PROVE  i = j /\ k = l
  BY <1>4 DEF Unrepeated
<1> HIDE DEF path
<1>9. CASE i = n + 1 /\ j = n + 1
  <2>1. k \in 1..Len(txs) /\ l \in 1..Len(txs) /\ txs[k].hash = txs[l].hash
    BY <1>4, <1>5, <1>9
  <2> QED
    BY <1>6, <1>9, <2>1
<1>10. ASSUME i = n + 1, j # n + 1 PROVE FALSE
  <2>1. k \in 1..Len(txs) /\ path[i][k] = txs[k].hash /\ j \in 1..n
    BY <1>2, <1>4, <1>5, <1>10
  <2> QED
    BY <1>7, <1>8, <2>1
<1>11. ASSUME i # n + 1, j = n + 1 PROVE FALSE
  <2>1. l \in 1..Len(txs) /\ path[j][l] = txs[l].hash /\ i \in 1..n
    BY <1>2, <1>4, <1>5, <1>11
  <2> QED
    BY <1>7, <1>8, <2>1
<1>12. CASE i # n + 1 /\ j # n + 1
  <2>1. i \in DOMAIN parent.path /\ j \in DOMAIN parent.path
        /\ path[i] = parent.path[i] /\ path[j] = parent.path[j]
    BY <1>2, <1>4, <1>12
  <2>2. <<i, k>> = <<j, l>>
    BY <2>1 DEF Unrepeated
  <2> QED
    BY <2>2
<1> QED
  BY <1>9, <1>10, <1>11, <1>12

LEMMA CountedNext ==
  ASSUME NoSelfTransfer,
         NEW parent \in Blocks, NEW txs \in Seq(Transactions), NEW block,
         Extension(parent, txs) = [valid |-> TRUE, block |-> block],
         Past(parent), Counted(parent)
  PROVE  Counted(block)
<1> DEFINE n == Len(txs)
<1>1. PICK run, fee : Adds(run, fee, parent, txs, block)
  BY LinkRun
<1>2. /\ IsRun(run, parent.accounts, txs, fee) /\ fee \in Nat /\ run[n].valid
      /\ block.accounts = run[n].accounts
      /\ block.path = Append(parent.path, HashesIn(txs))
  BY <1>1 DEF Adds
<1>3. parent.accounts \in Accounts /\ n \in 0..n
  BY BlockFields
<1>4. run[n].seen = {txs[j].hash : j \in 1..n}
  BY <1>2, <1>3, RunHashes
<1>5. InPath(block) = InPath(parent) \cup run[n].seen
  BY <1>2, <1>4, InPathOfNext
<1>6. \A x \in run[n].seen : x \notin InPath(parent)
  BY <1>4, PastNext
<1> SUFFICES ASSUME NEW a \in Address
             PROVE  /\ IsFiniteSet(Sent(block, a))
                    /\ block.accounts[a].nonce
                         = GenesisAccounts[a].nonce + Cardinality(Sent(block, a))
  BY DEF Counted
<1> DEFINE S == Sent(parent, a)
           T == SeenFrom(run, n, a)
<1>7. Sent(block, a) = S \cup T /\ S \cap T = {}
  BY <1>5, <1>6 DEF Sent, SeenFrom
<1>8. /\ IsFiniteSet(S)
      /\ parent.accounts[a].nonce = GenesisAccounts[a].nonce + Cardinality(S)
  BY DEF Counted
<1>9. /\ IsFiniteSet(T)
      /\ block.accounts[a].nonce = parent.accounts[a].nonce + Cardinality(T)
  BY <1>2, <1>3, RunCounts
<1> HIDE DEF S, T
<1>10. /\ IsFiniteSet(S \cup T)
       /\ Cardinality(S \cup T) = Cardinality(S) + Cardinality(T)
  <2>1. Cardinality(S \cap T) = 0
    BY <1>7, FS_EmptySet
  <2>2. Cardinality(S) \in Nat /\ Cardinality(T) \in Nat
    BY <1>8, <1>9, FS_CardinalityType
  <2>3. /\ IsFiniteSet(S \cup T)
        /\ Cardinality(S \cup T)
             = Cardinality(S) + Cardinality(T) - Cardinality(S \cap T)
    BY <1>8, <1>9, FS_Union
  <2> QED
    BY <2>1, <2>2, <2>3
<1>11. /\ Cardinality(S) \in Nat /\ Cardinality(T) \in Nat
       /\ GenesisAccounts[a].nonce \in Nat
  BY <1>8, <1>9, FS_CardinalityType, PipelineAssumption
<1> QED
  BY <1>7, <1>8, <1>9, <1>10, <1>11

LEMMA ChainCounted ==
  ASSUME NoSelfTransfer, NEW chain, Chain(chain)
  PROVE  \A h \in 0..Len(chain) :
           Unrepeated(TipOf(chain, h).path) /\ Counted(TipOf(chain, h))
<1> DEFINE good == {h \in 0..Len(chain) :
                      Unrepeated(TipOf(chain, h).path) /\ Counted(TipOf(chain, h))}
<1>1. Len(chain) \in Nat
  BY DEF Chain
<1>2. 0 \in good
  <2>1. Genesis.path = <<>> /\ InPath(Genesis) = {} /\ Genesis.accounts = GenesisAccounts
    BY DEF InPath, Genesis
  <2>2. Unrepeated(Genesis.path)
    BY <2>1 DEF Unrepeated
  <2>3. \A a : Sent(Genesis, a) = {}
    BY <2>1 DEF Sent
  <2>4. Counted(Genesis)
    <3> SUFFICES ASSUME NEW a \in Address
                 PROVE  /\ IsFiniteSet(Sent(Genesis, a))
                        /\ Genesis.accounts[a].nonce
                             = GenesisAccounts[a].nonce + Cardinality(Sent(Genesis, a))
      BY DEF Counted
    <3>1. GenesisAccounts[a].nonce + 0 = GenesisAccounts[a].nonce
      BY PipelineAssumption
    <3>2. IsFiniteSet({}) /\ Cardinality({}) = 0
      BY FS_EmptySet
    <3> QED
      BY <2>1, <2>3, <3>1, <3>2
  <2> QED
    BY <1>1, <2>2, <2>4 DEF TipOf
<1>3. ASSUME NEW h \in 1..Len(chain), h - 1 \in good PROVE h \in good
  <2>1. PICK txs \in Seq(Transactions) :
          Extension(TipOf(chain, h - 1), txs) = [valid |-> TRUE, block |-> chain[h]]
    BY DEF Chain, Linked
  <2>2. h - 1 \in 0..Len(chain)
    BY <1>1
  <2>3. /\ TipOf(chain, h - 1) \in Blocks /\ Past(TipOf(chain, h - 1))
        /\ Unrepeated(TipOf(chain, h - 1).path) /\ Counted(TipOf(chain, h - 1))
    BY <1>3, <2>2, TipFacts, ChainPast
  <2>4. Unrepeated(chain[h].path)
    BY <2>1, <2>3, UnrepeatedNext
  <2>5. Counted(chain[h])
    BY <2>1, <2>3, CountedNext
  <2> QED
    BY <1>1, <2>4, <2>5 DEF TipOf
<1> HIDE DEF good
<1>4. \A h \in 0..Len(chain) : h \in good
  BY <1>1, <1>2, <1>3, UpTo
<1> QED
  BY <1>4 DEF good

(***************************************************************************)
(* No transaction is in the chain twice, and an account's nonce has grown  *)
(* by the number of its transactions there (protocol_kernel.py).           *)
(***************************************************************************)
THEOREM NoReplayHolds ==
  ASSUME NoSelfTransfer
  PROVE  Spec => []NoReplay
<1>1. IInv => NoReplay
  <2> SUFFICES ASSUME IInv, NEW h \in DOMAIN certified
               PROVE  /\ \A i, j \in 1..h : \A k \in DOMAIN certified[h].path[i] :
                           \A l \in DOMAIN certified[h].path[j] :
                             certified[h].path[i][k] = certified[h].path[j][l]
                               => <<i, k>> = <<j, l>>
                      /\ \A a \in Address :
                           certified[h].accounts[a].nonce =
                             GenesisAccounts[a].nonce
                               + Cardinality(Sent(certified[h], a))
    BY DEF NoReplay
  <2>1. Chain(certified) /\ certified \in Seq(Blocks)
    BY DEF IInv, Following, Chain
  <2>2. /\ h \in 1..Len(certified) /\ h \in 0..Len(certified)
        /\ TipOf(certified, h) = certified[h]
    BY <2>1 DEF TipOf
  <2>3. Height(certified[h]) = h /\ certified[h] \in Blocks
    BY <2>1, <2>2 DEF Chain
  <2>4. DOMAIN certified[h].path = 1..h
    BY <2>3, BlockFields DEF Height
  <2>5. Unrepeated(certified[h].path) /\ Counted(certified[h])
    BY <2>1, <2>2, ChainCounted
  <2> QED
    BY <2>4, <2>5 DEF Unrepeated, Counted
<1> QED
  BY <1>1, Invariant, PTL

----------------------------------------------------------------------------
FeesTo(chain, h) == [i \in 1..h |-> chain[i].fees]

Conserved(chain, h) ==
  SumFunction(Balances(TipOf(chain, h).accounts)) + SumFunction(FeesTo(chain, h))
    = SumFunction(Balances(GenesisAccounts))

LEMMA FeesNext ==
  ASSUME NEW chain, Chain(chain), NEW h \in 1..Len(chain)
  PROVE  /\ SumFunction(FeesTo(chain, h))
              = SumFunction(FeesTo(chain, h - 1)) + chain[h].fees
         /\ SumFunction(FeesTo(chain, h - 1)) \in Nat
<1> DEFINE S == 1..(h - 1)
           v == FeesTo(chain, h)
           w == FeesTo(chain, h - 1)
<1>1. chain \in Seq(Blocks) /\ h \in Nat
  BY DEF Chain
<1>2. \A i \in 1..h : chain[i] \in Blocks
  BY <1>1
<1>3. \A i \in 1..h : chain[i].fees \in Nat
  BY <1>2, BlockFields
<1>4. /\ \A y \in S \cup {h} : v[y] \in Int
      /\ \A y \in S : v[y] \in Int /\ w[y] = v[y] /\ w[y] \in Nat
      /\ v[h] = chain[h].fees /\ DOMAIN v = S \cup {h} /\ DOMAIN w = S
  BY <1>1, <1>3 DEF FeesTo
<1>5. IsFiniteSet(S) /\ h \notin S
  BY <1>1, FS_Interval
<1> HIDE DEF S, v, w
<1>6. SumFunctionOnSet(v, S \cup {h}) = SumFunctionOnSet(v, S) + v[h]
  BY <1>4, <1>5, SumAdd
<1>7. SumFunctionOnSet(w, S) = SumFunctionOnSet(v, S)
  BY <1>4, <1>5, SumSame
<1>8. SumFunctionOnSet(w, S) \in Nat
  BY <1>4, <1>5, SumNat
<1>9. /\ SumFunction(v) = SumFunctionOnSet(v, S \cup {h})
      /\ SumFunction(w) = SumFunctionOnSet(w, S)
  BY <1>4 DEF SumFunction
<1> QED
  BY <1>4, <1>6, <1>7, <1>8, <1>9 DEF v, w

LEMMA BalancesInt ==
  ASSUME IsFiniteSet(Address), NEW accounts \in Accounts
  PROVE  SumFunction(Balances(accounts)) \in Int
<1> DEFINE v == Balances(accounts)
<1>1. DOMAIN v = Address /\ \A a \in Address : v[a] \in Int
  BY DEF Balances, Accounts
<1> HIDE DEF v
<1>2. SumFunctionOnSet(v, Address) \in Int
  BY <1>1, SumInt
<1>3. SumFunction(v) = SumFunctionOnSet(v, Address)
  BY <1>1 DEF SumFunction
<1> QED
  BY <1>2, <1>3 DEF v

LEMMA ChainConserves ==
  ASSUME NoSelfTransfer, IsFiniteSet(Address), NEW chain, Chain(chain)
  PROVE  \A h \in 0..Len(chain) : Conserved(chain, h)
<1> DEFINE good == {h \in 0..Len(chain) : Conserved(chain, h)}
<1>1. Len(chain) \in Nat
  BY DEF Chain
<1>2. 0 \in good
  <2> DEFINE w == FeesTo(chain, 0)
  <2>1. DOMAIN w = {}
    BY DEF FeesTo
  <2> HIDE DEF w
  <2>2. SumFunction(w) = 0
    BY <2>1, SumEmpty DEF SumFunction
  <2>3. TipOf(chain, 0).accounts = GenesisAccounts /\ GenesisAccounts \in Accounts
    BY PipelineAssumption DEF TipOf, Genesis, Accounts
  <2>4. SumFunction(Balances(GenesisAccounts)) \in Int
    BY <2>3, BalancesInt
  <2>5. Conserved(chain, 0)
    BY <2>2, <2>3, <2>4 DEF Conserved, w
  <2> QED
    BY <1>1, <2>5
<1>3. ASSUME NEW h \in 1..Len(chain), h - 1 \in good PROVE h \in good
  <2> DEFINE parent == TipOf(chain, h - 1)
             block == chain[h]
  <2>1. PICK txs \in Seq(Transactions) :
          Extension(parent, txs) = [valid |-> TRUE, block |-> block]
    BY DEF Chain, Linked
  <2>2. h - 1 \in 0..Len(chain)
    BY <1>1
  <2>3. parent \in Blocks /\ Conserved(chain, h - 1)
    BY <1>3, <2>2, TipFacts
  <2>4. TipOf(chain, h) = block
    BY <1>1 DEF TipOf
  <2>5. block \in Blocks
    BY DEF Chain
  <2> HIDE DEF parent, block
  <2>6. PICK run, fee : Adds(run, fee, parent, txs, block)
    BY <2>1, <2>3, LinkRun
  <2>7. /\ parent.accounts \in Accounts /\ block.accounts \in Accounts
        /\ block.fees \in Nat /\ Len(txs) \in 0..Len(txs)
    BY <2>3, <2>5, BlockFields
  <2>8. SumFunction(Balances(block.accounts)) + block.fees
          = SumFunction(Balances(parent.accounts)) + 0
    BY <2>6, <2>7, RunSupply DEF Adds
  <2>9. /\ SumFunction(Balances(block.accounts)) \in Int
        /\ SumFunction(Balances(parent.accounts)) \in Int
    BY <2>7, BalancesInt
  <2>10. /\ SumFunction(FeesTo(chain, h))
              = SumFunction(FeesTo(chain, h - 1)) + block.fees
         /\ SumFunction(FeesTo(chain, h - 1)) \in Nat
    BY FeesNext DEF block
  <2>11. SumFunction(Balances(parent.accounts)) + SumFunction(FeesTo(chain, h - 1))
           = SumFunction(Balances(GenesisAccounts))
    BY <2>3 DEF Conserved, parent
  <2>12. SumFunction(Balances(block.accounts)) + SumFunction(FeesTo(chain, h))
           = SumFunction(Balances(GenesisAccounts))
    BY <2>7, <2>8, <2>9, <2>10, <2>11
  <2> QED
    BY <2>4, <2>12 DEF Conserved
<1> HIDE DEF good
<1>4. \A h \in 0..Len(chain) : h \in good
  BY <1>1, <1>2, <1>3, UpTo
<1> QED
  BY <1>4 DEF good

(***************************************************************************)
(* The balances and all fees so far add up to the genesis supply after     *)
(* every block (protocol_kernel.py), with finitely many accounts.          *)
(***************************************************************************)
THEOREM SupplyConservedHolds ==
  ASSUME NoSelfTransfer, IsFiniteSet(Address)
  PROVE  Spec => []SupplyConserved
<1>1. IInv => SupplyConserved
  <2> SUFFICES ASSUME IInv, NEW h \in DOMAIN certified
               PROVE  SumFunction(Balances(certified[h].accounts))
                        + SumFunction([i \in 1..h |-> certified[i].fees])
                      = SumFunction(Balances(GenesisAccounts))
    BY DEF SupplyConserved
  <2>1. Chain(certified) /\ certified \in Seq(Blocks)
    BY DEF IInv, Following, Chain
  <2>2. h \in 0..Len(certified) /\ TipOf(certified, h) = certified[h]
    BY <2>1 DEF TipOf
  <2>3. Conserved(certified, h)
    BY <2>1, <2>2, ChainConserves
  <2> QED
    BY <2>2, <2>3 DEF Conserved, FeesTo
<1> QED
  BY <1>1, Invariant, PTL
=============================================================================
