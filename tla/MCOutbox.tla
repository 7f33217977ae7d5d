------------------------------ MODULE MCOutbox ------------------------------
(* Outbox for TLC: a campaign by SMS and an event's message by e-mail.      *)
EXTENDS Outbox, TLC

MCCampaigns == {"spring", "birthday"}
MCTriggered == {"birthday"}
MCChannels == {"sms", "email"}
MCChannelOf == "spring" :> "sms" @@ "birthday" :> "email"

=============================================================================
