---------------------------- MODULE MCDnsRecords ----------------------------
EXTENDS DnsInvariant, TLC

CONSTANTS c1, c2, name1, name2, key1, key2

For(o, k) == [owner |-> o, key |-> k]
Publish(r) == [what |-> "publish", goal |-> {r}]
Delete(r) == [what |-> "delete", goal |-> {r}]
Prove(rs) == [what |-> "prove", goal |-> rs]

\* A key with records at two names, proved together while one is published
\* and retired.  At first, and wherever somebody else writes, a name holds the
\* key in another encoding or beside a key of others; deletions make it empty.
MCTasks == {Publish(For(name1, key1)), Delete(For(name1, key1)),
            Prove({For(name1, key1), For(name2, key1)})}
MCZoneSets == {{<<key1, "equivalent">>},
               {<<key1, "preferred">>, <<key2, "preferred">>}}

\* A publication with its proof at one name, a retirement at the other.
MCRetryTasks == {Publish(For(name1, key1)), Prove({For(name1, key1)}),
                 Delete(For(name2, key1))}
MCRetryZoneSets == {{}, {<<key1, "equivalent">>}}

MCSymmetry == Permutations(Callers)
=============================================================================
