------------------------- MODULE MCAnsiblePlaybooks -------------------------
(* AnsiblePlaybooks with answers of one playbook, and of two.               *)
EXTENDS AnsiblePlaybooks
CONSTANTS a, b
MCNames == {a, b}
MCBatches == {<<a>>, <<a, b>>}
=============================================================================
