------------------------------ MODULE MCInbox -------------------------------
EXTENDS Inbox
MCProducers == {"mq", "other"}
MCMessages == {"m1", "m2"}
=============================================================================
