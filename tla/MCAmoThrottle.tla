---------------------------- MODULE MCAmoThrottle ----------------------------
(* Two integrations of one account: the first sends through the HTTP        *)
(* transport and the SDK, the second exchanges tokens.                      *)
EXTENDS AmoThrottle

MCIntegrationOf == [c \in Callers |-> IF c = "token" THEN "i2" ELSE "i1"]
MCKindOf == [c \in Callers |-> c]
==============================================================================
