----------------------------- MODULE MCControl ------------------------------
(***************************************************************************)
(* LcpControl on small flows, and the properties of the control.           *)
(***************************************************************************)
EXTENDS LcpControl

\* The defaults of common.cpp, and the other branches of the options.
MCSettings ==
  { [type |-> "aimd", epochs |-> "long", useQa |-> TRUE, useRtt |-> TRUE,
     useFi |-> TRUE, aiPerEpoch |-> FALSE, rtoReduces |-> TRUE],
    [type |-> "aimd_phantom", epochs |-> "short", useQa |-> TRUE, useRtt |-> FALSE,
     useFi |-> TRUE, aiPerEpoch |-> TRUE, rtoReduces |-> FALSE] }
MCKeeps == {50}

VARIABLE lastQa  \* history: when quick adapt last cut the window, and whether
                 \* the period before had delivered nothing

\* Quick adapt cuts the window in this step.
QaCuts == cc.qaOn /\ ~cc'.qaOn

\* The bytes this step acknowledges anew.
NewBytes ==
  Mss * Cardinality({ p \in Packets : sent[p].state # "acked" /\ sent'[p].state = "acked" })

MCInit == Init /\ lastQa = [at |-> 0 - TargetRtt, starved |-> FALSE]
MCNext ==
  /\ Next
  /\ lastQa' = IF QaCuts THEN [at |-> now, starved |-> cc.qaBytes + NewBytes = 0] ELSE lastQa
MCSpec == MCInit /\ [][MCNext]_<<vars, lastQa>>

-----------------------------------------------------------------------------
\* Types; in particular the window a handler leaves is one that lets a packet
\* out and is not above the maximum, whatever the steps within the handler did
\* to it (check_limits_cwnd).
TypeOK ==
  /\ now \in 0 .. MaxTime
  /\ options \in Settings
  /\ sent \in [Packets -> Entry]
  /\ network \subseteq [pkt : Packets, at : 0 .. now]
  /\ rcvd \subseteq Packets
  /\ cc \in Fields
  /\ cc.cwnd \in Mss .. MaxCwnd

\* processEpochEnd never divides by zero: an epoch that ends has acknowledged
\* some byte, though duplicate ACKs reach the same code with none.
EwmaIsNumber == cc.ewmaIsNumber

\* Fast increase multiplies by fast_increase_round once _consecutive_good_epochs
\* is large enough; every path that ends a row of good epochs (a congested ACK,
\* a congested epoch, a timeout, quick adapt) ends it for both counters.  Only
\* aimd_phantom keeps the rounds at a congested ACK.
RoundsMatchEpochs ==
  /\ cc.goodEpochs <= cc.fastRounds
  /\ options.type = "aimd" => cc.goodEpochs = cc.fastRounds

\* The flow counts down to its first epoch or is in epochs.  The one way to
\* lose both, and with them every multiplicative decrease, is quick adapt at the
\* end of a period in which nothing was acknowledged: epoch_counter becomes 0
\* and the senders, which ask for a positive one, never restart the epochs.
EpochsLostOnlyWhenStarved == cc.epochOn \/ cc.counter > 0 \/ lastQa.starved

\* Two cuts of quick adapt are a measurement period apart, so that the second
\* one does not answer the queue the first one answered.
QaCutsApart == [][ QaCuts => now >= lastQa.at + TargetRtt ]_<<vars, lastQa>>

\* Quick adapt leaves the window at what the period delivered, as far as the
\* maximum allows: the epoch that may end with the same ACK does not cut it
\* again, and a period judged by its bytes does not raise it, unless ai_bytes is
\* more than a packet.  (One judged by the RTT may.)
QaLandsOnDelivered ==
  [][ QaCuts /\ (\A p \in Packets : sent[p].state = "flying" => sent'[p].state # "timedOut"
                                       /\ (sent'[p].state = "flying" => sent'[p] = sent[p]))
        => LET bytes == cc.qaBytes + NewBytes
           IN  /\ cc'.cwnd >= Min({MaxCwnd, (96 * bytes) \div 100})
               /\ bytes < QaThreshold(cc) /\ AiBytes <= Mss => cc'.cwnd <= cc.cwnd ]_vars
=============================================================================
