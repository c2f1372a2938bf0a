-------------------------- MODULE MCPluginSession --------------------------
\* PluginSession with one system of the session and a few others.
EXTENDS PluginSession
=============================================================================
