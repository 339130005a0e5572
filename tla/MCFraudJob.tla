------------------------------ MODULE MCFraudJob ------------------------------
(* A small instance of FraudJob for TLC: the sample data, and every          *)
(* collection of up to MaxLength transactions of two accounts.               *)
EXTENDS FraudJob

CONSTANTS MaxLength, TimesUsed

Elements ==
  [account : {1, 2}, timestamp : TimesUsed, amount : {"small", "medium", "large"}]

InOrder(c) ==
  \A i, j \in DOMAIN c :
    i < j /\ c[i].account = c[j].account => c[i].timestamp <= c[j].timestamp

MCCollections ==
  {SampleTransactions}
  \cup {c \in UNION {[1 .. n -> Elements] : n \in 0 .. MaxLength} : InOrder(c)}

==============================================================================
