------------------------- MODULE MCConversationView -------------------------
EXTENDS ConversationView, MCConversation
=============================================================================
