---------------------------- MODULE MC_EventRouter ----------------------------
EXTENDS EventRouter

\* A PumpFun buy or sell: its first instruction is the PF program.
PfTrade == [ix |-> "PF", logs |-> {"PF"}, key0 |-> Unknown, inner |-> Unknown,
            markers |-> {"trade"}, accounts |-> {"PF"}, decodes |-> TRUE]
\* The same, with a payload the decoder rejects.
PfBadTrade == [PfTrade EXCEPT !.decodes = FALSE]
\* An aggregator's PumpSwap trade whose account keys include the PF program.
PsRouted == [ix |-> Unknown, logs |-> {"PS"}, key0 |-> Unknown,
             inner |-> "PS", markers |-> {"trade"}, accounts |-> {"PF", "PS"},
             decodes |-> TRUE]
\* A LaunchLab trade whose account keys include the PF program.
RllRouted == [ix |-> "RLL", logs |-> {"RLL"}, key0 |-> Unknown,
              inner |-> Unknown, markers |-> {"trade"},
              accounts |-> {"PF", "RLL"}, decodes |-> TRUE]
\* A PumpSwap-only transaction, which the PF filter does not pass.
PsOnly == [PsRouted EXCEPT !.accounts = {"PS"}]

\* Two topics, the PF filter, a rejected payload and the mis-tagged RLL trade.
MC_MixedKinds == {PfTrade, PfBadTrade, PsRouted, RllRouted, PsOnly}
MC_PfKinds == {PfTrade, PfBadTrade, PsOnly}
MC_RoutedKinds == {PfTrade, PsRouted, RllRouted}
=============================================================================
