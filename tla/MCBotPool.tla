------------------------------- MODULE MCBotPool -------------------------------
(* Instances of BotPool for TLC.                                             *)
EXTENDS BotPool, TLC

\* Every bot has its own order of the workers: a rotation of one of them by the
\* bot's place among the bots, so that each worker owns a bot when there are
\* enough of them.
WorkerPlace == CHOOSE f \in [Workers -> 0 .. Cardinality(Workers) - 1] :
                  \A v, w \in Workers : f[v] = f[w] => v = w
BotPlace    == CHOOSE f \in [Bots -> 0 .. Cardinality(Bots) - 1] :
                  \A a, b \in Bots : f[a] = f[b] => a = b
MCRank == [b \in Bots |-> [w \in Workers |->
              (WorkerPlace[w] + BotPlace[b]) % Cardinality(Workers)]]
===============================================================================
