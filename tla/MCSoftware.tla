----------------------------- MODULE MCSoftware -----------------------------
EXTENDS SoftwareProperties

MCCompare == [ t \in 0..1 |-> IF t = 0 THEN 2 ELSE 1 ]

MCInputs == { {0}, 4..7 }

MCStrays == { [ type |-> "READ", address |-> "a" ], [ type |-> "WRITE", address |-> "b" ] }

MCApplications == { "sha256", "hello" }

=============================================================================
