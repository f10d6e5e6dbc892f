---------------------------- MODULE MCUnaryChat ----------------------------
(* UnaryChat for TLC, in units of ten seconds: what each kind of upstream  *)
(* may answer.                                                             *)
EXTENDS UnaryChat

OpenAIReplies == ReplyKinds \ {"slow_model"}
BedrockReplies == ReplyKinds \ {"retry_after"}
=============================================================================
