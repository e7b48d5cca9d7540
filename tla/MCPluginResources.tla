---------------------------- MODULE MCPluginResources --------------------------
EXTENDS PluginResources
MCIncludes == {"inc"}
MCPlugins  == {"so"}
MCSettings == {"cfg"}
MCIgnored  == {"cfg"}
================================================================================
