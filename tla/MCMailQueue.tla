---------------------------- MODULE MCMailQueue -----------------------------
(* MailQueue with a handful of tasks.                                        *)
EXTENDS MailQueue
=============================================================================
