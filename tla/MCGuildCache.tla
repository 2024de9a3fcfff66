---------------------------- MODULE MCGuildCache ----------------------------
EXTENDS GuildCache
=============================================================================
