---------------------------- MODULE StatsLedger ----------------------------
(***************************************************************************)
(* What the datapath counters promise their readers: a ledger to which     *)
(* whole bursts are posted, which is cleared as a whole and read as a      *)
(* whole.  Datapath.tla implements it field by field under a mutex.        *)
(***************************************************************************)
EXTENDS Integers

CONSTANT BurstSize  \* most packets of one burst

VARIABLES
    ledger,  \* the counters
    answer   \* what the last reader was told

LedgerFields == {"rx_packets", "tx_packets", "drop_packets",
                 "drop_parse_errors", "drop_no_match", "rx_bursts",
                 "tx_bursts", "unsent_packets"}

Blank == [f \in LedgerFields |-> 0]

\* A burst of rx packets: malformed ones are dropped by the parser, sent ones
\* transmitted, the rest dropped unsent.  Without a candidate nothing is
\* transmitted.
BurstEntry(rx, malformed, sent) ==
    [f \in LedgerFields |->
       CASE f = "rx_packets" -> rx
         [] f = "tx_packets" -> sent
         [] f = "drop_packets" -> rx - sent
         [] f = "drop_parse_errors" -> malformed
         [] f = "drop_no_match" -> 0
         [] f = "rx_bursts" -> 1
         [] f = "tx_bursts" -> IF malformed = rx THEN 0 ELSE 1
         [] f = "unsent_packets" -> (rx - malformed) - sent]

Init == ledger = Blank /\ answer = Blank

Post ==
    /\ \E rx \in 1..BurstSize : \E malformed \in 0..rx :
       \E sent \in 0..(rx - malformed) :
          ledger' = [f \in LedgerFields |->
                       ledger[f] + BurstEntry(rx, malformed, sent)[f]]
    /\ UNCHANGED answer

Clear == ledger' = Blank /\ UNCHANGED answer

Read == answer' = ledger /\ UNCHANGED ledger

Next == Post \/ Clear \/ Read

Spec == Init /\ [][Next]_<<ledger, answer>>
=============================================================================
