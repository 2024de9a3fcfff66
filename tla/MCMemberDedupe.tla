--------------------------- MODULE MCMemberDedupe ---------------------------
EXTENDS MemberDedupe

\* Every session receives every event: two bots share the guild.
SharedWindows == {[s \in Shards |-> 1..MaxEvents]}

\* Rolling reshard of one guild from session Old to session New: Old
\* receives events 1..k until it is closed, New receives j..MaxEvents from
\* the moment it connects, with j <= k + 1 so that no event is missed.
CONSTANTS Old, New
RollingWindows ==
    {[s \in {Old, New} |-> IF s = Old THEN 1..k ELSE j..MaxEvents] :
        k \in 0..MaxEvents, j \in 1..MaxEvents + 1}
    \cap {w \in [{Old, New} -> SUBSET (1..MaxEvents)] :
            \A i \in 1..MaxEvents : i \in w[Old] \/ i \in w[New]}
=============================================================================
