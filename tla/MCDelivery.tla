----------------------------- MODULE MCDelivery -----------------------------
\* Delivery on small instances: one area each, and a single announcement where
\* requests overlap.
EXTENDS Delivery, MCConditions

Mode(conditions, areas, anns) ==
    {[overlap |-> c.overlap, faults |-> c.faults, area |-> a, scope |-> anns] :
       c \in conditions, a \in areas}

One == {CHOOSE a \in Anns : TRUE}

Instances ==
    Mode(Faulty \cup Serial, {"reminder"}, Anns)
      \cup Mode({Deployed} \cup Overlapping, {"reminder"}, One)
      \cup Mode(Conditions \cup Overlapping, {"notice"}, One)
      \cup Mode({Deployed} \cup Overlapping, {"webhook"}, {})

=============================================================================
