----------------------------- MODULE MCRedisPool -----------------------------
EXTENDS RedisPool
=============================================================================
