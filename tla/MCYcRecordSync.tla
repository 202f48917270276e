--------------------------- MODULE MCYcRecordSync ---------------------------
(* Instances of YcRecordSync for TLC. *)
EXTENDS YcRecordSync, TLC

\* One row of one appointment.
OneAppt == [r \in Rows |-> CHOOSE a \in Appts : TRUE]

\* Each row has an appointment of its own, of the same client.
CONSTANTS FirstAppt, SecondAppt
OwnAppt == [r \in Rows |-> IF r = 1 THEN FirstAppt ELSE SecondAppt]

\* Duplicate webhooks made two rows of one appointment, whose client has another.
TwinAppts == [r \in Rows |-> IF r < 3 THEN FirstAppt ELSE SecondAppt]

Symmetry == Permutations(Jobs) \cup Permutations(Clis) \cup Permutations(Leads \ FreeLeads)
=============================================================================
